---- MODULE Spec2Model ----
(***************************************************************************)
(* The BPX container writer (src/src/encoder.rs): an Encoder owns a main   *)
(* header, a list of section headers, a list of section payload stores and *)
(* a sink.  save() stages every section into a temporary file (checksum    *)
(* tap, optional compressor), patches the headers, then emits the main     *)
(* header, the section headers and the staged bytes to the sink.           *)
(*                                                                         *)
(* Sizes that the code holds in a u32 are scaled down: U32_MAX stands for  *)
(* u32::MAX, and a cast `as u32` is a reduction modulo U32_MAX + 1.        *)
(***************************************************************************)
EXTENDS Integers, Sequences, FiniteSets, TLC

\* ---------------------------------------------------------------- bounds
\* u32::MAX, scaled down so that a section can exceed it.
U32_MAX == 2
\* Most sections one encoder declares.
MaxSections == 2
\* Largest byte value a payload holds (bytes are 1..MaxByte).
MaxByte == 2
\* Most save() calls on one encoder.
MaxSaves == 2
\* Most bytes a compressor adds to an incompressible payload.
MaxExpansion == 1

\* ------------------------------------------------------ header constants
SIZE_MAIN_HEADER == 40
SIZE_SECTION_HEADER == 24
FLAG_COMPRESS_ZLIB == 1
FLAG_COMPRESS_XZ == 2
FLAG_CHECK_CRC32 == 4
FLAG_CHECK_WEAK == 8
\* A bit of the flags byte that the format reserves.
FLAG_RESERVED == 16
\* 'B' + 'P' + 'X', the signature bytes of the main header.
SIGNATURE_SUM == 234
\* The format version a MainHeader carries.
BPX_CURRENT_VERSION == 1

\* ------------------------------------------------------------- helpers
\* f & bit != 0, for bit a power of two.
HasFlag(f, bit) == (f \div bit) % 2 = 1

RECURSIVE SumSeq(_)
SumSeq(s) == IF s = <<>> THEN 0 ELSE Head(s) + SumSeq(Tail(s))

\* The arithmetic sum of the little-endian bytes of v.
RECURSIVE ByteSum(_)
ByteSum(v) == IF v = 0 THEN 0 ELSE (v % 256) + ByteSum(v \div 256)

\* Bitwise exclusive or of two naturals.
RECURSIVE Xor(_, _)
Xor(a, b) ==
    IF a = 0 THEN b
    ELSE IF b = 0 THEN a
    ELSE ((a + b) % 2) + 2 * Xor(a \div 2, b \div 2)

\* WeakChecksum: push adds every byte to the accumulator.
WeakChecksum(bytes) == SumSeq(bytes)

\* One bit step of the CRC register (8 bits wide here, polynomial 0x07).
CrcShift(c) == IF c >= 128 THEN Xor((2 * c) % 256, 7) ELSE 2 * c

RECURSIVE CrcBits(_, _)
CrcBits(c, n) == IF n = 0 THEN c ELSE CrcBits(CrcShift(c), n - 1)

\* Crc32Checksum: a CRC over the pushed bytes, 0 for no byte.
RECURSIVE Crc32Register(_, _)
Crc32Register(c, bytes) ==
    IF bytes = <<>> THEN c
    ELSE Crc32Register(CrcBits(Xor(c, Head(bytes)), 8), Tail(bytes))

Crc32Checksum(bytes) == Crc32Register(0, bytes)

\* SectionHeader::get_checksum: the sum of the bytes of the header as written.
SectionHeaderChecksum(h) ==
    ByteSum(h.pointer) + ByteSum(h.csize) + ByteSum(h.size) + ByteSum(h.chksum)
        + h.btype + h.flags

\* The sum of the main-header bytes with the chksum field taken as c.
MainHeaderByteSum(h, c) ==
    SIGNATURE_SUM + h.btype + ByteSum(c) + ByteSum(h.file_size)
        + ByteSum(h.section_num) + ByteSum(h.version) + SumSeq(h.type_ext)

\* MainHeader::get_checksum: the byte sum with the chksum field zeroed.
MainHeaderChecksum(h) == MainHeaderByteSum(h, 0)

\* The 16 bytes of type_ext, all zero.
NoTypeExt == [k \in 1..16 |-> 0]

\* MainHeader::new
NewMainHeader ==
    [btype |-> 0, chksum |-> 0, file_size |-> 0, section_num |-> 0,
     version |-> BPX_CURRENT_VERSION, type_ext |-> NoTypeExt]

\* ---------------------------------------------------------------- state
VARIABLES
    main_header,        \* Encoder.main_header
    sections,           \* Encoder.sections: the section headers
    sections_data,      \* Encoder.sections_data: the payload of each section
    file,               \* Encoder.file: the chunks the sink has received
    pc,                 \* "idle", or "staging" inside write_sections
    i,                  \* write_sections: the loop index (1-based)
    f,                  \* write_sections: the staging file, one segment a section
    ptr,                \* write_sections: ptr
    chksum_sht,         \* write_sections: chksum_sht
    all_sections_size,  \* write_sections: all_sections_size
    result,             \* what the last save() returned: "ok", "capacity",
                        \* "deflate", "io" (Error::Io before the sink is
                        \* written), "sink" (Error::Io of the sink)
    saves,              \* save() calls so far
    requested,          \* the section headers as they were when save() began
    file0,              \* the chunks the sink held when save() began
    created,            \* the successful create_section calls, in order
    declared,           \* create_section (the function): the header's size
    backend,            \* create_section (the function): what it returned
    string_section,     \* the payload store of a strings section
    cache,              \* StringSection::cache, address -> string
    puts,               \* the successful put calls, in order
    last,               \* the last get or put call and what it returned
    object,             \* an sd::Object: name hash -> Value
    dest,               \* the bytes the destination of Object::write received
    write_result,       \* what Object::write returned
    read_result,        \* what Object::read returned
    symbols_map,        \* DebugSymbols::symbols_map, name hash -> name
    symbols_list,       \* DebugSymbols::symbols_list
    symbols_read,       \* what DebugSymbols::read returned, and for which Object
    package_strings,    \* PackageEncoder.strings: the handle, none before build
    calls,              \* the pack and pack_vname calls so far, in order
    packed,             \* the files pack_file has packed, in order
    builder,            \* the PackageBuilder, and whether with_variant was called
    late,               \* the writes to a data section already at the split limit
    container,          \* what Decoder::new yielded to ShaderPackDecoder::new
    shader_pack,        \* what ShaderPackDecoder::new returned
    xz_source,          \* the Read given to deflate or inflate: its bytes and its cursor
    xz_sink,            \* the bytes the Write given to deflate or inflate accepted
    xz_tap,             \* the bytes pushed to the Checksum
    xz_loc,             \* the locals of do_deflate or do_inflate, and what it returned
    lzma,               \* the lzma_stream: the coder behind lzma_code
    xz_deflated,        \* the last deflate that returned: its arguments and its outcome
    cp,                 \* save() byte by byte: section, staging file, sink, loop locals
    table,              \* NamedItemTable: list, and map (the OnceCell: empty when unset)
    answer              \* the answer of the last find_by_name, while its borrow lasts

encoder == <<main_header, sections, sections_data, file>>
locals == <<i, f, ptr, chksum_sht, all_sections_size>>
ghost == <<requested, file0, created>>
store == <<declared, backend>>
strings == <<string_section, cache, puts, last>>
sd == <<object, dest, write_result, read_result>>
debug == <<symbols_map, symbols_list, symbols_read>>
package == <<package_strings, calls, packed, builder, late>>
shader == <<container, shader_pack>>
xz == <<xz_source, xz_sink, xz_tap, xz_loc, lzma, xz_deflated>>
copy == <<cp>>
named == <<table, answer>>

\* What the operations of one component leave alone.
beside_encoder == <<store, strings, sd, debug, package, shader, xz, copy, named>>
beside_store == <<encoder, pc, locals, result, saves, ghost, strings, sd, debug, package,
                  shader, xz, copy, named>>
beside_strings == <<encoder, pc, locals, result, saves, ghost, store, sd, debug, package,
                    shader, xz, copy, named>>
beside_sd == <<encoder, pc, locals, result, saves, ghost, store, strings, debug, package,
               shader, xz, copy, named>>
beside_debug == <<encoder, pc, locals, result, saves, ghost, store, strings, package,
                  shader, xz, copy, named>>
beside_package == <<file, pc, locals, result, saves, requested, file0, store, strings,
                    sd, debug, shader, xz, copy, named>>
beside_shader == <<encoder, pc, locals, result, saves, ghost, store, strings, sd,
                   debug, package, xz, copy, named>>
beside_xz == <<encoder, pc, locals, result, saves, ghost, store, strings, sd,
               debug, package, shader, copy, named>>
beside_copy == <<encoder, pc, locals, result, saves, ghost, store, strings, sd,
                 debug, package, shader, xz, named>>
beside_named == <<encoder, pc, locals, result, saves, ghost, store, strings, sd,
                  debug, package, shader, xz, copy>>

vars == <<main_header, sections, sections_data, file, pc, i, f, ptr, chksum_sht,
          all_sections_size, result, saves, requested, file0, created,
          beside_encoder>>

\* The byte values written to payloads.
Bytes == 1..MaxByte
\* The flags bytes a caller passes in a section header.
FlagBytes == 0..(2 * FLAG_RESERVED - 1)

Written == SumSeq([k \in 1..Len(sections_data) |-> Len(sections_data[k])])

\* No call of a StringSection yet.
NoCall == [op |-> "none", address |-> 0, s |-> <<>>, err |-> "none", miss |-> FALSE]

\* No payload store: create_section (the function) was not called yet.
NoStore == [kind |-> "none", size |-> 0, cursor |-> 0]

\* No DebugSymbols::read yet.
NoSymbols == [err |-> "unread", symbols_map |-> <<>>, symbols_list |-> <<>>,
              obj |-> <<>>]

\* PackageBuilder::new
NewPackageBuilder ==
    [architecture |-> "Any", platform |-> "Any", metadata |-> {},
     type_code |-> <<80, 72>>, with_variant |-> FALSE]

\* What Decoder::new returns: an error, or a decoder holding the main header
\* (its type, version and bytes 10 and 11 of type_ext) and the section types.
DecoderOf(err, btype, version, acode, tcode, types) ==
    [err |-> err, btype |-> btype, version |-> version, acode |-> acode,
     tcode |-> tcode, types |-> types]
NoContainer == DecoderOf("unopened", 0, 0, 0, 0, <<>>)

\* What ShaderPackDecoder::new returns: an error, or the decoder with its
\* target, its type and the handles of its strings and symbol-table sections.
ShaderPack(err, target, btype, strs, symbol_table) ==
    [err |-> err, target |-> target, btype |-> btype, strings |-> strs,
     symbol_table |-> symbol_table]
ShaderPackErr(err) == ShaderPack(err, "", "", {}, {})

\* The locals of do_deflate and do_inflate: count and csize of do_deflate,
\* remaining of do_inflate, the bytes of inbuf not yet consumed (avail_in is
\* their number), the bytes in outbuf (avail_out is the room left), what was
\* returned, and whether a write was accepted in part only.
XzLocals(op, size) ==
    [op |-> op, size |-> size, action |-> "LZMA_RUN", count |-> 0, csize |-> 0,
     remaining |-> size, inbuf |-> <<>>, outbuf |-> <<>>, err |-> "none",
     short |-> FALSE]

\* lzma_stream after new_encoder or new_decoder: the output not yet handed
\* out, where the coder is in the stream, and whether the last lzma_code made
\* no progress.
NewLzma == [q |-> <<>>, phase |-> "header", stall |-> FALSE, bad |-> FALSE]

\* No deflate has returned.
NoDeflate == [source |-> <<>>, size |-> 0, read |-> 0, tap |-> <<>>, sink |-> <<>>,
              err |-> "none", csize |-> 0, short |-> FALSE]

\* save() not called: the section and its cursor, the staging file and its
\* cursor, the bytes pushed to the checksum, count of the running loop,
\* all_sections_size, file_size, and the header bytes and the payload bytes
\* the sink accepted; turn is the parity of the turns the running loop has
\* made.
NoCopy ==
    [pc |-> "idle", section |-> <<>>, cursor |-> 0, staging |-> <<>>, seek |-> 0,
     tap |-> <<>>, count |-> 0, all_sections_size |-> 0, file_size |-> 0,
     headers |-> 0, sink |-> <<>>, turn |-> 0]

\* NamedItemTable::with_list: the list as given, the OnceCell unset.
with_list(list) == [list |-> list, map |-> {}, pushed |-> FALSE, removed |-> FALSE]

\* No find_by_name has answered since the table last changed.
NoAnswer == [asked |-> FALSE, name |-> "", item |-> {}]

\* The state beside the encoder before anything is called.
BesideInit ==
    /\ declared = 0
    /\ backend = NoStore
    /\ string_section = [bytes |-> <<>>, cursor |-> 0]
    /\ cache = <<>>
    /\ puts = <<>>
    /\ last = NoCall
    /\ object = <<>>
    /\ dest = <<>>
    /\ write_result = [err |-> "unwritten", count |-> 0]
    /\ read_result = [err |-> "unread",
                      val |-> [t |-> 0, n |-> 0, s |-> <<>>, a |-> <<>>, o |-> <<>>],
                      pos |-> 0]
    /\ symbols_map = <<>>
    /\ symbols_list = <<>>
    /\ symbols_read = NoSymbols
    /\ package_strings = {}
    /\ calls = <<>>
    /\ packed = <<>>
    /\ builder = NewPackageBuilder
    /\ late = <<>>
    /\ container = NoContainer
    /\ shader_pack = ShaderPackErr("unopened")
    /\ xz_source = [bytes |-> <<>>, cursor |-> 0]
    /\ xz_sink = <<>>
    /\ xz_tap = <<>>
    /\ xz_loc = XzLocals("idle", 0)
    /\ lzma = NewLzma
    /\ xz_deflated = NoDeflate
    /\ cp = NoCopy
    /\ table = with_list(<<>>)
    /\ answer = NoAnswer

\* Encoder::new
Init ==
    /\ BesideInit
    /\ main_header = NewMainHeader
    /\ sections = <<>>
    /\ sections_data = <<>>
    /\ file = <<>>
    /\ pc = "idle"
    /\ i = 0
    /\ f = <<>>
    /\ ptr = 0
    /\ chksum_sht = 0
    /\ all_sections_size = 0
    /\ result = "none"
    /\ saves = 0
    /\ requested = <<>>
    /\ file0 = <<>>
    /\ created = <<>>

\* ------------------------------------------------------------ operations
ResetLocals ==
    /\ i' = 0
    /\ f' = <<>>
    /\ ptr' = 0
    /\ chksum_sht' = 0
    /\ all_sections_size' = 0

\* SectionHeader::new with the fields a caller sets.
SectionHeaderOf(fl, c, t) ==
    [pointer |-> 0, size |-> 0, csize |-> c, chksum |-> 0, btype |-> t, flags |-> fl]

\* Encoder::set_main_header
SetMainHeader(h) ==
    /\ pc = "idle"
    /\ saves = 0
    /\ main_header' = h
    /\ UNCHANGED <<sections, sections_data, file, pc, locals, result, saves, ghost>>
    /\ UNCHANGED beside_encoder

\* create_section storing the new element first instead of last.
PushFront(list, x) == <<x>> \o list

\* The position at which create_section stores a new header and its payload.
PushAt(list, x) == Append(list, x)

\* Encoder::create_section, the payload store allocated.
CreateSection(header, MaxN) ==
    /\ pc = "idle"
    /\ saves = 0
    /\ Len(sections) < MaxN
    /\ main_header' = [main_header EXCEPT !.section_num = @ + 1]
    /\ sections' = PushAt(sections, header)
    /\ sections_data' = PushAt(sections_data, <<>>)
    /\ created' = Append(created,
            [header |-> header, bytes |-> <<>>, handle |-> Len(sections') - 1,
             raised |-> main_header'.section_num - main_header.section_num])
    /\ UNCHANGED <<file, pc, locals, result, saves, requested, file0>>
    /\ UNCHANGED beside_encoder

\* Encoder::create_section, the payload store not allocated (an I/O error of
\* the temporary file): the count is already raised, nothing is pushed.
CreateSectionFail(MaxN) ==
    /\ pc = "idle"
    /\ saves = 0
    /\ main_header.section_num <= Len(sections)
    /\ main_header' = [main_header EXCEPT !.section_num = @ + 1]
    /\ UNCHANGED <<sections, sections_data, file, pc, locals, result, saves, ghost>>
    /\ UNCHANGED beside_encoder

\* Encoder::open_section(handle) and one byte written to the store it returns.
\* Handles count from 0, sequences from 1.
WriteData(handle, b) ==
    /\ pc = "idle"
    /\ saves = 0
    /\ handle + 1 \in 1..Len(sections_data)
    /\ Written < U32_MAX + 1
    /\ sections_data' = [sections_data EXCEPT ![handle + 1] = Append(@, b)]
    /\ created' = [created EXCEPT ![handle + 1].bytes = Append(@, b)]
    /\ UNCHANGED <<main_header, sections, file, pc, locals, result, saves, requested,
                   file0>>
    /\ UNCHANGED beside_encoder

\* get_flags testing CHECK_CRC32 before CHECK_WEAK and zlib before XZ.
get_flags_swapped(header, size) ==
    LET chk == IF HasFlag(header.flags, FLAG_CHECK_CRC32) THEN FLAG_CHECK_CRC32
               ELSE IF HasFlag(header.flags, FLAG_CHECK_WEAK) THEN FLAG_CHECK_WEAK
               ELSE 0
        cmp == IF HasFlag(header.flags, FLAG_COMPRESS_ZLIB) /\ size > header.csize
               THEN FLAG_COMPRESS_ZLIB
               ELSE IF HasFlag(header.flags, FLAG_COMPRESS_XZ) /\ size > header.csize
               THEN FLAG_COMPRESS_XZ
               ELSE 0
    IN chk + cmp

\* get_flags comparing size >= header.csize.
get_flags_ge(header, size) ==
    LET chk == IF HasFlag(header.flags, FLAG_CHECK_WEAK) THEN FLAG_CHECK_WEAK
               ELSE IF HasFlag(header.flags, FLAG_CHECK_CRC32) THEN FLAG_CHECK_CRC32
               ELSE 0
        cmp == IF HasFlag(header.flags, FLAG_COMPRESS_XZ) /\ size >= header.csize
               THEN FLAG_COMPRESS_XZ
               ELSE IF HasFlag(header.flags, FLAG_COMPRESS_ZLIB) /\ size >= header.csize
               THEN FLAG_COMPRESS_ZLIB
               ELSE 0
    IN chk + cmp

\* get_flags
get_flags(header, size) ==
    LET chk == IF HasFlag(header.flags, FLAG_CHECK_WEAK) THEN FLAG_CHECK_WEAK
               ELSE IF HasFlag(header.flags, FLAG_CHECK_CRC32) THEN FLAG_CHECK_CRC32
               ELSE 0
        cmp == IF HasFlag(header.flags, FLAG_COMPRESS_XZ) /\ size > header.csize
               THEN FLAG_COMPRESS_XZ
               ELSE IF HasFlag(header.flags, FLAG_COMPRESS_ZLIB) /\ size > header.csize
               THEN FLAG_COMPRESS_ZLIB
               ELSE 0
    IN chk + cmp

\* write_section_checked: the branch taken.
Method(flags) ==
    IF HasFlag(flags, FLAG_COMPRESS_XZ) THEN "xz"
    ELSE IF HasFlag(flags, FLAG_COMPRESS_ZLIB) THEN "zlib"
    ELSE "raw"

\* A compressing branch that does not push its last byte to the tap.
TappedShort(flags, bytes) ==
    IF Method(flags) = "raw" \/ bytes = <<>> THEN bytes
    ELSE SubSeq(bytes, 1, Len(bytes) - 1)

\* What the checksum tap of write_section has been pushed: the bytes read from
\* the section, whichever branch copies them.
Tapped(flags, bytes) == bytes

\* write_section: the checksum returned.
SectionChksum(flags, bytes) ==
    IF HasFlag(flags, FLAG_CHECK_CRC32) THEN Crc32Checksum(Tapped(flags, bytes))
    ELSE IF HasFlag(flags, FLAG_CHECK_WEAK) THEN WeakChecksum(Tapped(flags, bytes))
    ELSE 0

\* The sizes a compressor can return for `size` input bytes (size > 0).
DeflateSizes(size) == 1..(size + MaxExpansion)

\* write_section_checked: the sizes it can return.
StagedSizes(flags, size) ==
    IF Method(flags) = "raw" THEN {size} ELSE DeflateSizes(size)

\* write_section: the errors it can return.
StageErrors(flags) ==
    IF Method(flags) = "raw" THEN {"io"} ELSE {"io", "deflate"}

\* write_sections: the initial ptr.
FirstPointer(n) == SIZE_MAIN_HEADER + n * SIZE_SECTION_HEADER

\* csize as u32
StoredCsize(csize) == csize % (U32_MAX + 1)

\* write_sections: the header fields written back after staging.
WriteBack(header, size, csize, chksum, flags, p) ==
    [header EXCEPT !.csize = StoredCsize(csize), !.size = size, !.chksum = chksum,
                   !.flags = flags, !.pointer = p]

\* save() writing the main header to the sink before it stages the sections.
SaveBeginEager ==
    /\ pc = "idle"
    /\ saves < MaxSaves
    /\ saves' = saves + 1
    /\ pc' = "staging"
    /\ i' = 1
    /\ f' = <<>>
    /\ ptr' = SIZE_MAIN_HEADER + Len(sections) * SIZE_SECTION_HEADER
    /\ chksum_sht' = 0
    /\ all_sections_size' = 0
    /\ result' = "none"
    /\ requested' = sections
    /\ file0' = file
    /\ file' = Append(file, [kind |-> "main", hdr |-> main_header])
    /\ UNCHANGED <<main_header, sections, sections_data, created>>
    /\ UNCHANGED beside_encoder

\* Encoder::save calls write_sections: the locals, and the staging file created.
SaveBegin ==
    /\ pc = "idle"
    /\ saves < MaxSaves
    /\ saves' = saves + 1
    /\ pc' = "staging"
    /\ i' = 1
    /\ f' = <<>>
    /\ ptr' = FirstPointer(Len(sections))
    /\ chksum_sht' = 0
    /\ all_sections_size' = 0
    /\ result' = "none"
    /\ requested' = sections
    /\ file0' = file
    /\ UNCHANGED <<encoder, created>>
    /\ UNCHANGED beside_encoder

\* Encoder::save: tempfile::tempfile() fails.
SaveBeginFail ==
    /\ pc = "idle"
    /\ saves < MaxSaves
    /\ saves' = saves + 1
    /\ result' = "io"
    /\ requested' = sections
    /\ file0' = file
    /\ UNCHANGED <<encoder, pc, locals, created>>
    /\ UNCHANGED beside_encoder

\* write_sections returns an error: save() returns it.
SaveAbort(e) ==
    /\ pc' = "idle"
    /\ result' = e
    /\ ResetLocals

\* write_sections, one turn of the loop: the section is too large.
StageCapacity ==
    /\ pc = "staging"
    /\ i <= Len(sections)
    /\ Len(sections_data[i]) > U32_MAX
    /\ SaveAbort("capacity")
    /\ UNCHANGED <<encoder, saves, ghost>>
    /\ UNCHANGED beside_encoder

\* write_sections, one turn of the loop: write_section fails.
StageFail(e) ==
    /\ pc = "staging"
    /\ i <= Len(sections)
    /\ Len(sections_data[i]) <= U32_MAX
    /\ e \in StageErrors(get_flags(sections[i], Len(sections_data[i])))
    /\ SaveAbort(e)
    /\ UNCHANGED <<encoder, saves, ghost>>
    /\ UNCHANGED beside_encoder

\* write_sections, one turn of the loop: the section is staged.
StageSection(csize) ==
    /\ pc = "staging"
    /\ i <= Len(sections)
    /\ Len(sections_data[i]) <= U32_MAX
    /\ LET data == sections_data[i]
           size == Len(data)
           flags == get_flags(sections[i], size)
           chksum == SectionChksum(flags, data)
           header == WriteBack(sections[i], size, csize, chksum, flags, ptr)
       IN /\ csize \in StagedSizes(flags, size)
          /\ f' = Append(f, [method |-> Method(flags), data |-> data, len |-> csize])
          /\ sections' = [sections EXCEPT ![i] = header]
          /\ ptr' = ptr + csize
          /\ chksum_sht' = chksum_sht + SectionHeaderChecksum(header)
          /\ all_sections_size' = all_sections_size + csize
    /\ i' = i + 1
    /\ UNCHANGED <<main_header, sections_data, file, pc, result, saves, ghost>>
    /\ UNCHANGED beside_encoder

\* Encoder::save: file_size
SaveFileSize(all, n) == all + n * SIZE_SECTION_HEADER + SIZE_MAIN_HEADER

\* save() computing chksum before it sets file_size.
SaveMainHeaderEarly(h, sht, all, n) ==
    [h EXCEPT !.chksum = sht + MainHeaderChecksum(h),
              !.file_size = SaveFileSize(all, n)]

\* Encoder::save: the main header with file_size and chksum filled in.
SaveMainHeader(h, sht, all, n) ==
    LET h1 == [h EXCEPT !.file_size = SaveFileSize(all, n)]
    IN [h1 EXCEPT !.chksum = sht + MainHeaderChecksum(h1)]

\* Encoder::save: what it hands the sink, in order.
SaveChunks(h, secs, staged) ==
    <<[kind |-> "main", hdr |-> h]>>
        \o [k \in 1..Len(secs) |-> [kind |-> "section", hdr |-> secs[k]]]
        \o [k \in 1..Len(staged) |-> [kind |-> "data", seg |-> staged[k]]]

\* Encoder::save after write_sections returned Ok, every write succeeding.
SaveEmit ==
    /\ pc = "staging"
    /\ i > Len(sections)
    /\ main_header' =
         SaveMainHeader(main_header, chksum_sht, all_sections_size, Len(sections))
    /\ file' = file \o SaveChunks(main_header', sections, f)
    /\ pc' = "idle"
    /\ result' = "ok"
    /\ ResetLocals
    /\ UNCHANGED <<sections, sections_data, saves, ghost>>
    /\ UNCHANGED beside_encoder

\* Encoder::save after write_sections returned Ok, the sink failing after it
\* took n chunks.
SaveEmitFail(n) ==
    /\ pc = "staging"
    /\ i > Len(sections)
    /\ main_header' =
         SaveMainHeader(main_header, chksum_sht, all_sections_size, Len(sections))
    /\ n \in 0..(Len(SaveChunks(main_header', sections, f)) - 1)
    /\ file' = file \o SubSeq(SaveChunks(main_header', sections, f), 1, n)
    /\ pc' = "idle"
    /\ result' = "sink"
    /\ ResetLocals
    /\ UNCHANGED <<sections, sections_data, saves, ghost>>
    /\ UNCHANGED beside_encoder

\* The main headers a caller passes to set_main_header.
MainHeaders ==
    [btype : {80}, chksum : {0}, file_size : {0}, section_num : {0, 1},
     version : {BPX_CURRENT_VERSION}, type_ext : {NoTypeExt}]

NextOf(Headers, Vals, MaxN) ==
    \/ \E h \in MainHeaders : SetMainHeader(h)
    \/ \E header \in Headers : CreateSection(header, MaxN)
    \/ CreateSectionFail(MaxN)
    \/ \E h \in 0..(MaxN - 1), b \in Vals : WriteData(h, b)
    \/ SaveBegin
    \/ SaveBeginFail
    \/ StageCapacity
    \/ \E e \in {"io", "deflate"} : StageFail(e)
    \/ \E csize \in 0..(U32_MAX + MaxExpansion) : StageSection(csize)
    \/ SaveEmit
    \/ \E n \in 0..(2 * MaxN) : SaveEmitFail(n)

\* The layout specification: up to MaxSections sections of one byte value,
\* declared with one of four headers (no flag; XZ with CRC32; zlib with the
\* weak checksum and a csize hint of 1; every bit of the flags byte).  The
\* encoder is declared and filled, then saved up to MaxSaves times.
LayoutHeaders ==
    {SectionHeaderOf(0, 0, 7),
     SectionHeaderOf(FLAG_COMPRESS_XZ + FLAG_CHECK_CRC32, 0, 1),
     SectionHeaderOf(FLAG_COMPRESS_ZLIB + FLAG_CHECK_WEAK, 1, 2),
     SectionHeaderOf(2 * FLAG_RESERVED - 1, 0, 3)}

Next == NextOf(LayoutHeaders, {1}, MaxSections)

Spec == Init /\ [][Next]_vars

\* The flags specification: one section, every flags byte, every csize hint,
\* every payload.
FlagHeaders == {SectionHeaderOf(fl, c, 7) : fl \in FlagBytes, c \in 0..U32_MAX}

NextFlags == NextOf(FlagHeaders, Bytes, 1)

SpecFlags == Init /\ [][NextFlags]_vars

\* ---------------------------------------------------------------- claims
\* save() has just returned Ok.
Saved == pc = "idle" /\ result = "ok"

\* What the sink received during the last save().
Image == SubSeq(file, Len(file0) + 1, Len(file))
WrittenMain == Image[1].hdr
WrittenSection(k) == Image[1 + k].hdr
WrittenData(k) == Image[1 + Len(sections) + k].seg

\* The sum of the csize stored in the written section headers.
StoredCsizeSum == SumSeq([k \in 1..Len(sections) |-> WrittenSection(k).csize])

\* C1: after a successful save() the sink holds the main header, the section
\* headers in declaration order, the payloads in declaration order, and the
\* stored pointers chain: pointer of section 0 is SIZE_MAIN_HEADER +
\* N * SIZE_SECTION_HEADER and each next pointer is the previous pointer plus
\* the previous stored csize.
C1_LayoutChains ==
    Saved =>
        LET N == Len(sections) IN
        /\ Len(Image) = 1 + 2 * N
        /\ Image[1].kind = "main"
        /\ \A k \in 1..N :
            /\ Image[1 + k].kind = "section"
            /\ WrittenSection(k).btype = created[k].header.btype
            /\ Image[1 + N + k].kind = "data"
            /\ WrittenData(k).data = created[k].bytes
        /\ N > 0 => WrittenSection(1).pointer = SIZE_MAIN_HEADER + N * SIZE_SECTION_HEADER
        /\ \A k \in 1..(N - 1) :
            WrittenSection(k + 1).pointer
                = WrittenSection(k).pointer + WrittenSection(k).csize

\* C2: after a successful save() the written main header has file_size =
\* SIZE_MAIN_HEADER + section_count * SIZE_SECTION_HEADER + the sum of the
\* stored csize, section_count being the field of that written header.
C2_FileSize ==
    Saved =>
        WrittenMain.file_size
            = SIZE_MAIN_HEADER + WrittenMain.section_num * SIZE_SECTION_HEADER
                + StoredCsizeSum

\* C3: the section_count of the main header written by save() is the number
\* of sections created, whatever the order of set_main_header and
\* create_section and whatever the template carried.
C3_SectionCount == Saved => WrittenMain.section_num = Len(sections)

\* C4: the k-th successful create_section returns handle k and raises
\* section_num by one; until save() rewrites the headers, handle k still names
\* the header passed to that call and the payload store allocated by it.
C4_StableHandles ==
    /\ \A k \in 1..Len(created) :
        /\ created[k].handle = k - 1
        /\ created[k].raised = 1
    /\ saves = 0 =>
        /\ Len(sections) = Len(created)
        /\ Len(sections_data) = Len(created)
        /\ \A k \in 1..Len(created) :
            /\ sections[created[k].handle + 1] = created[k].header
            /\ sections_data[created[k].handle + 1] = created[k].bytes

C4_Witness ==
    /\ saves = 0
    /\ Len(created) = 2
    /\ created[1].header # created[2].header
    /\ created[1].bytes # <<>>
    /\ Len(created[2].bytes) = 2

\* The checksum bit the claim C5 expects for the requested flags byte fl.
C5_ChecksumBit(fl) ==
    IF HasFlag(fl, FLAG_CHECK_WEAK) THEN FLAG_CHECK_WEAK
    ELSE IF HasFlag(fl, FLAG_CHECK_CRC32) THEN FLAG_CHECK_CRC32
    ELSE 0

\* The compression bit the claim C5 expects for flags fl, hint c and size s.
C5_CompressionBit(fl, c, s) ==
    IF s <= c THEN 0
    ELSE IF HasFlag(fl, FLAG_COMPRESS_XZ) THEN FLAG_COMPRESS_XZ
    ELSE IF HasFlag(fl, FLAG_COMPRESS_ZLIB) THEN FLAG_COMPRESS_ZLIB
    ELSE 0

\* C5: the flags save() stores are the requested checksum bit (weak wins over
\* CRC32) plus one compression bit only when the payload size exceeds the
\* csize hint (XZ wins over zlib), and no other bit.
C5_StoredFlags ==
    Saved =>
        \A k \in 1..Len(sections) :
            LET fl == requested[k].flags
                c == requested[k].csize
                s == Len(sections_data[k])
                stored == WrittenSection(k).flags
            IN /\ stored = C5_ChecksumBit(fl) + C5_CompressionBit(fl, c, s)
               /\ sections[k].flags = stored
               /\ ~(HasFlag(stored, FLAG_CHECK_WEAK) /\ HasFlag(stored, FLAG_CHECK_CRC32))
               /\ ~(HasFlag(stored, FLAG_COMPRESS_XZ) /\ HasFlag(stored, FLAG_COMPRESS_ZLIB))
               /\ stored < FLAG_RESERVED

C5_Witness ==
    /\ Saved
    /\ saves = 1
    /\ Len(sections) = 1
    /\ requested[1].flags = 2 * FLAG_RESERVED - 1
    /\ requested[1].csize = 1
    /\ Len(sections_data[1]) = 2
    /\ WrittenSection(1).flags = FLAG_CHECK_WEAK + FLAG_COMPRESS_XZ

\* C6: after a successful save() no stored section has a compression bit
\* together with csize >= size, and no section has csize > size.
C6_CompressedOnlyIfSmaller ==
    Saved =>
        \A k \in 1..Len(sections) :
            LET h == WrittenSection(k) IN
            /\ (HasFlag(h.flags, FLAG_COMPRESS_XZ) \/ HasFlag(h.flags, FLAG_COMPRESS_ZLIB))
                    => h.csize < h.size
            /\ h.csize <= h.size

\* C7: the chksum stored for a section is 0 without a stored checksum bit, the
\* byte sum of the uncompressed payload with CHECK_WEAK, its CRC with
\* CHECK_CRC32, whether the section was staged compressed or verbatim.
C7_SectionChksum ==
    Saved =>
        \A k \in 1..Len(sections) :
            LET h == WrittenSection(k)
                payload == sections_data[k]
            IN /\ h.chksum =
                    IF HasFlag(h.flags, FLAG_CHECK_WEAK) THEN WeakChecksum(payload)
                    ELSE IF HasFlag(h.flags, FLAG_CHECK_CRC32) THEN Crc32Checksum(payload)
                    ELSE 0
               /\ sections[k].chksum = h.chksum

C7_Witness ==
    /\ Saved
    /\ Len(sections) = 1
    /\ sections_data[1] = <<2, 1>>
    /\ WrittenSection(1).flags = FLAG_CHECK_CRC32 + FLAG_COMPRESS_XZ
    /\ WrittenData(1).method = "xz"
    /\ WrittenSection(1).chksum # 0
    /\ WrittenSection(1).chksum # WeakChecksum(sections_data[1])

\* C8: a section whose payload is empty at save() is stored with size 0,
\* csize 0, chksum 0 and no compression bit, no compressor runs for it, and a
\* writer holding exactly one such section writes file_size =
\* SIZE_MAIN_HEADER + SIZE_SECTION_HEADER.
C8_EmptySection ==
    Saved =>
        \A k \in 1..Len(sections) :
            sections_data[k] = <<>> =>
                LET h == WrittenSection(k) IN
                /\ h.size = 0
                /\ h.csize = 0
                /\ h.chksum = 0
                /\ ~HasFlag(h.flags, FLAG_COMPRESS_XZ)
                /\ ~HasFlag(h.flags, FLAG_COMPRESS_ZLIB)
                /\ WrittenData(k).method = "raw"
                /\ WrittenData(k).len = 0
                /\ Len(sections) = 1 =>
                        WrittenMain.file_size = SIZE_MAIN_HEADER + SIZE_SECTION_HEADER

C8_Witness ==
    /\ Saved
    /\ Len(sections) = 1
    /\ sections_data[1] = <<>>
    /\ requested[1].flags = 2 * FLAG_RESERVED - 1
    /\ requested[1].csize = 0

\* C9: the chksum of the written main header is the byte sum of that header
\* with its chksum field taken as zero plus the byte sums of the section
\* headers as written, on a first and on a second save().
C9_HeaderChksum ==
    Saved =>
        WrittenMain.chksum
            = MainHeaderByteSum(WrittenMain, 0)
                + SumSeq([k \in 1..Len(sections) |->
                            SectionHeaderChecksum(WrittenSection(k))])

C9_Witness ==
    /\ Saved
    /\ saves = 2
    /\ Len(file0) > 0
    /\ Len(sections) = 2
    /\ WrittenSection(1).csize > 0
    /\ WrittenSection(2).chksum > 0
    /\ file0[1].hdr.chksum # 0

\* C10: save() hands the sink nothing before every section is staged: while
\* staging, and after a Capacity, Deflate or staging I/O error, the sink holds
\* what it held when save() began, and the first chunk a save() hands the sink
\* is the finished main header.
C10_SinkQuarantined ==
    /\ pc = "staging" => file = file0
    /\ (pc = "idle" /\ result \in {"capacity", "deflate", "io"}) => file = file0
    /\ Len(file) > Len(file0) =>
        /\ Image[1].kind = "main"
        /\ Image[1].hdr = main_header
    /\ file # <<>> => file[1].kind = "main"

C10_Witness ==
    /\ pc = "idle"
    /\ result = "deflate"
    /\ saves = 2
    /\ Len(sections) = 2
    /\ sections[1].pointer > 0
    /\ Len(file0) > 0

\* C11: a save() that fails while staging (Capacity, Deflate or staging I/O
\* error) leaves every section header, those of the sections staged before the
\* failing one included, as it was when save() was called, so that a retry
\* derives the same effective flags as the first call did.
C11_FailedSaveKeepsHeaders ==
    (pc = "idle" /\ saves > 0 /\ result \in {"capacity", "deflate", "io"}) =>
        /\ Len(sections) = Len(requested)
        /\ \A k \in 1..Len(sections) :
            /\ sections[k] = requested[k]
            /\ get_flags(sections[k], Len(sections_data[k]))
                = get_flags(requested[k], Len(sections_data[k]))

\* ------------------------------------------------------- payload stores
\* src/src/section/mod.rs and the function create_section of encoder.rs: the
\* choice of the back-end of a payload store.  A store is described by its
\* kind, its size and its cursor; an Option<u32> is the set of its values.

\* Sizes probed on each side of 0 and of the threshold.
MaxProbe == 40

MEMORY_THRESHOLD == 100000000

\* FileBasedSection::new(tempfile): an empty temporary file.
FileBasedSection == [kind |-> "file", size |-> 0, cursor |-> 0]

\* InMemorySection::new(vec![0; s]): a buffer of s zero bytes.
InMemorySection(s) == [kind |-> "memory", size |-> s, cursor |-> 0]

\* section::new_section_data
new_section_data(size) ==
    IF size # {}
    THEN LET s == CHOOSE x \in size : TRUE
         IN IF s > MEMORY_THRESHOLD THEN FileBasedSection ELSE InMemorySection(s)
    ELSE FileBasedSection

\* create_section (the function of encoder.rs): the store of a new section;
\* seek(Start(0)) leaves the cursor of a new store at 0.
create_section(size) ==
    IF size = 0
    THEN [new_section_data({}) EXCEPT !.cursor = 0]
    ELSE [new_section_data({size}) EXCEPT !.cursor = 0]

\* The sizes a caller declares in a section header.
DeclaredSizes ==
    (0..MaxProbe)
        \cup ((MEMORY_THRESHOLD - MaxProbe)..(MEMORY_THRESHOLD + MaxProbe))

\* create_section returns a store.
OpenStore(size) ==
    /\ declared' = size
    /\ backend' = create_section(size)
    /\ UNCHANGED beside_store

\* create_section returns the I/O error of tempfile::tempfile().
OpenStoreFail(size) ==
    /\ create_section(size).kind = "file"
    /\ declared' = size
    /\ backend' = [kind |-> "error", size |-> 0, cursor |-> 0]
    /\ UNCHANGED beside_store

NextStore ==
    \/ \E size \in DeclaredSizes : OpenStore(size)
    \/ \E size \in DeclaredSizes : OpenStoreFail(size)

SpecStore == Init /\ [][NextStore]_vars

\* C12: a store created for a header is the in-memory buffer when the header's
\* size is 0 (capacity unknown) or at most MEMORY_THRESHOLD, and a temporary
\* file only when the size is above the threshold.
C12_BackendChoice ==
    backend.kind \in {"memory", "file"} =>
        /\ declared <= MEMORY_THRESHOLD => backend.kind = "memory"
        /\ declared > MEMORY_THRESHOLD => backend.kind = "file"

\* -------------------------------------------------------- string sections
\* src/src/strings.rs: a StringSection holds the handle of a strings section
\* and a cache; put and get open the section's payload store and write or read
\* at its cursor.  A string is a sequence of non-zero bytes; the sizes here are
\* far below u32::MAX, so `size() as u32` is exact.

\* Longest string put.
MaxStrLen == 1
\* Most successful put calls on one strings section.
MaxPuts == 3
\* A put is called while the strings section is shorter than this.
MaxStringBytes == 4

RECURSIVE StringsUpTo(_)
StringsUpTo(n) ==
    IF n = 0 THEN {<<>>}
    ELSE StringsUpTo(n - 1)
            \cup {Append(s, b) : s \in {x \in StringsUpTo(n - 1) : Len(x) = n - 1},
                                 b \in Bytes}

\* The strings a caller puts.
Strings == StringsUpTo(MaxStrLen)

\* SectionData::size
StoreSize(st) == Len(st.bytes)

\* SectionData::seek(SeekFrom::Start(p))
StoreSeek(st, p) == [st EXCEPT !.cursor = p]

\* SectionData::write(buf): the bytes replace what the store holds from the
\* cursor on and extend it when they reach past its end.
StoreWrite(st, buf) ==
    [bytes |-> SubSeq(st.bytes, 1, st.cursor) \o buf
                  \o SubSeq(st.bytes, st.cursor + Len(buf) + 1, Len(st.bytes)),
     cursor |-> st.cursor + Len(buf)]

\* SectionData::read(&mut chr) with a buffer of one byte: the count returned,
\* the byte (unchanged when nothing was read) and the cursor.
StoreRead(st, chr) ==
    IF st.cursor < Len(st.bytes)
    THEN [n |-> 1, chr |-> st.bytes[st.cursor + 1], st |-> StoreSeek(st, st.cursor + 1)]
    ELSE [n |-> 0, chr |-> chr, st |-> st]

\* low_level_read_string: the while loop, chr being the byte read last.
RECURSIVE ReadLoop(_, _, _)
ReadLoop(st, chr, curs) ==
    IF chr = 0
    THEN [err |-> "none", s |-> curs, st |-> st]
    ELSE LET r == StoreRead(st, chr)
         IN IF r.n # 1
            THEN [err |-> "truncation", s |-> <<>>, st |-> r.st]
            ELSE ReadLoop(r.st, r.chr, Append(curs, chr))

\* low_level_read_string: chr starts as 0 and the count of the first read is
\* not looked at.
low_level_read_string(address, st) ==
    LET r == StoreRead(StoreSeek(st, address), 0)
    IN ReadLoop(r.st, r.chr, <<>>)

\* low_level_write_string: the address is the size, the bytes go to the cursor.
low_level_write_string(s, st) ==
    [ptr |-> StoreSize(st), st |-> StoreWrite(StoreWrite(st, s), <<0>>)]

\* HashMap::insert
Insert(map, k, v) == [x \in DOMAIN map \cup {k} |-> IF x = k THEN v ELSE map[x]]

\* StringSection::new on the handle of the same section: an empty cache.
NewStringSection ==
    /\ DOMAIN cache # {}
    /\ cache' = <<>>
    /\ last' = NoCall
    /\ UNCHANGED <<string_section, puts, beside_strings>>

\* StringSection::put
Put(s) ==
    /\ Len(puts) < MaxPuts
    /\ StoreSize(string_section) < MaxStringBytes
    /\ LET w == low_level_write_string(s, string_section)
       IN /\ string_section' = w.st
          /\ cache' = Insert(cache, w.ptr, s)
          /\ puts' = Append(puts, [address |-> w.ptr, s |-> s])
          /\ last' = [op |-> "put", address |-> w.ptr, s |-> s, err |-> "none",
                      miss |-> FALSE]
    /\ UNCHANGED beside_strings

\* StringSection::put, a write of the store failing: the first (n = 0) or the
\* write of the terminator (n = 1).
PutFail(s, n) ==
    /\ Len(puts) < MaxPuts
    /\ StoreSize(string_section) < MaxStringBytes
    /\ string_section' = IF n = 0 THEN string_section ELSE StoreWrite(string_section, s)
    /\ last' = [op |-> "put", address |-> 0, s |-> s, err |-> "io", miss |-> FALSE]
    /\ UNCHANGED <<cache, puts, beside_strings>>

\* StringSection::get, the address in the cache.
GetHit(address) ==
    /\ address \in DOMAIN cache
    /\ last' = [op |-> "get", address |-> address, s |-> cache[address],
                err |-> "none", miss |-> FALSE]
    /\ UNCHANGED <<string_section, cache, puts, beside_strings>>

\* StringSection::get, the address not in the cache.
GetMiss(address) ==
    /\ address \notin DOMAIN cache
    /\ LET r == low_level_read_string(address, string_section)
       IN /\ string_section' = r.st
          /\ cache' = IF r.err = "none" THEN Insert(cache, address, r.s) ELSE cache
          /\ last' = [op |-> "get", address |-> address, s |-> r.s, err |-> r.err,
                      miss |-> TRUE]
    /\ UNCHANGED <<puts, beside_strings>>

\* StringSection::get, the address not in the cache and the seek failing.
GetFail(address) ==
    /\ address \notin DOMAIN cache
    /\ last' = [op |-> "get", address |-> address, s |-> <<>>, err |-> "io",
                miss |-> TRUE]
    /\ UNCHANGED <<string_section, cache, puts, beside_strings>>

\* The addresses a caller gets: every offset of the section and its size.
Addresses == 0..StoreSize(string_section)

NextStrings ==
    \/ NewStringSection
    \/ \E s \in Strings : Put(s)
    \/ \E s \in Strings, n \in 0..1 : PutFail(s, n)
    \/ \E address \in Addresses : GetHit(address)
    \/ \E address \in Addresses : GetMiss(address)
    \/ \E address \in Addresses : GetFail(address)

SpecStrings == Init /\ [][NextStrings]_vars

\* The section holds s and a zero byte at address.
HoldsAt(bytes, address, s) ==
    /\ address + Len(s) + 1 <= Len(bytes)
    /\ SubSeq(bytes, address + 1, address + Len(s) + 1) = s \o <<0>>

\* C13: whatever puts and gets were called, every string a put returned an
\* address for is held by the section at that address, zero terminator
\* included, a get of that address that reads the section returns it, and the
\* cache holds nothing else for that address.
C13_PutAppends ==
    \A k \in 1..Len(puts) :
        LET r == low_level_read_string(puts[k].address, string_section)
        IN /\ HoldsAt(string_section.bytes, puts[k].address, puts[k].s)
           /\ r.err = "none"
           /\ r.s = puts[k].s
           /\ puts[k].address \in DOMAIN cache => cache[puts[k].address] = puts[k].s

\* C14: a get that misses the cache returns a string only when the section
\* holds it, zero terminator included, at the address; when the section has no
\* zero byte from the address on (the address being its size included), the
\* get fails with Truncation and the cache holds nothing for the address.
C14_GetMiss ==
    (last.op = "get" /\ last.miss /\ last.err # "io") =>
        /\ last.err = "none" =>
                HoldsAt(string_section.bytes, last.address, last.s)
        /\ (\A p \in (last.address + 1)..Len(string_section.bytes) :
                string_section.bytes[p] # 0) =>
                /\ last.err = "truncation"
                /\ last.address \notin DOMAIN cache

\* ------------------------------------------------- structured data (BPXSD)
\* src/src/sd/object.rs and src/src/sd/encoder.rs.  A Value is a record of its
\* kind t and its content v; an Object is a function from name hashes to
\* Values, an Array a sequence of Values.  The kinds modelled are Null, Bool,
\* Uint8, Uint16, Uint32, Int8, Int16, String, Array and Object; a String is
\* a sequence of bytes, which may hold a zero byte as a Rust String may.  The
\* content of a Value is the field of its kind: n for a number (a Bool is 0
\* or 1), s for the bytes of a String, a for the items of an Array, o for the
\* properties of an Object.

\* Most entries an Object or an Array is encoded with: it stands for 255,
\* scaled down so that an Object can exceed it.
MAX_COUNT == 3
\* Name hashes are 0..MaxHash.
MaxHash == 7

Value(t, n, s, a, o) == [t |-> t, n |-> n, s |-> s, a |-> a, o |-> o]
Scalar(t, n) == Value(t, n, <<>>, <<>>, <<>>)
StringValue(s) == Value("String", 0, s, <<>>, <<>>)
ArrayValue(a) == Value("Array", 0, <<>>, a, <<>>)
ObjectValue(o) == Value("Object", 0, <<>>, <<>>, o)
Null == Scalar("Null", 0)

\* get_value_type_code
get_value_type_code(val) ==
    CASE val.t = "Null" -> 0
      [] val.t = "Bool" -> 1
      [] val.t = "Uint8" -> 2
      [] val.t = "Uint16" -> 3
      [] val.t = "Uint32" -> 4
      [] val.t = "Int8" -> 6
      [] val.t = "Int16" -> 7
      [] val.t = "String" -> 12
      [] val.t = "Array" -> 13
      [] val.t = "Object" -> 14

\* LittleEndian::write_uN: the n bytes of v, lowest first.
RECURSIVE LittleEndian(_, _)
LittleEndian(v, n) ==
    IF n = 0 THEN <<>> ELSE <<v % 256>> \o LittleEndian(v \div 256, n - 1)

\* A signed integer of n bytes as the unsigned integer of the same bits.
RECURSIVE Pow256(_)
Pow256(n) == IF n = 0 THEN 1 ELSE 256 * Pow256(n - 1)
AsUnsigned(v, n) == IF v < 0 THEN v + Pow256(n) ELSE v

\* Object::get_keys: the order of a HashMap's keys is not specified; the
\* encoder meets them by rising or by falling hash.
Orders == {"rising", "falling"}
Reverse(s) == [k \in 1..Len(s) |-> s[Len(s) + 1 - k]]
get_keys(obj, order) ==
    LET rising == SelectSeq([k \in 1..(MaxHash + 1) |-> k - 1],
                            LAMBDA h : h \in DOMAIN obj)
    IN IF order = "rising" THEN rising ELSE Reverse(rising)

\* Object::prop_count
prop_count(obj) == Cardinality(DOMAIN obj)

\* What the functions of the encoder return.
Encoded(bytes) == [err |-> "none", count |-> 0, bytes |-> bytes]
PropCountExceeded(count) ==
    [err |-> "PropCountExceeded", count |-> count, bytes |-> <<>>]

RECURSIVE write_value(_, _)
RECURSIVE write_props(_, _, _, _)
RECURSIVE write_items(_, _, _, _)

\* write_object with a limit one entry higher.
write_object_lax(obj, order) ==
    IF prop_count(obj) > MAX_COUNT + 1
    THEN PropCountExceeded(prop_count(obj))
    ELSE write_props(obj, get_keys(obj, order), order, <<prop_count(obj) % 256>>)

\* write_object
write_object(obj, order) ==
    IF prop_count(obj) > MAX_COUNT
    THEN PropCountExceeded(prop_count(obj))
    ELSE write_props(obj, get_keys(obj, order), order, <<prop_count(obj) % 256>>)

\* write_array
write_array(arr, order) ==
    IF Len(arr) > MAX_COUNT
    THEN PropCountExceeded(Len(arr))
    ELSE write_items(arr, 1, order, <<Len(arr) % 256>>)

\* write_object: the loop over the keys, v being the bytes so far.
write_props(obj, keys, order, v) ==
    IF keys = <<>>
    THEN Encoded(v)
    ELSE LET hash == Head(keys)
             val == obj[hash]
             r == write_value(val, order)
         IN IF r.err # "none"
            THEN r
            ELSE write_props(obj, Tail(keys), order,
                    v \o LittleEndian(hash, 8) \o <<get_value_type_code(val)>>
                      \o r.bytes)

\* write_array: the loop over the indices, v being the bytes so far.
write_items(arr, k, order, v) ==
    IF k > Len(arr)
    THEN Encoded(v)
    ELSE LET r == write_value(arr[k], order)
         IN IF r.err # "none"
            THEN r
            ELSE write_items(arr, k + 1, order,
                    v \o <<get_value_type_code(arr[k])>> \o r.bytes)

\* write_value
write_value(val, order) ==
    CASE val.t = "Null" -> Encoded(<<>>)
      [] val.t = "Bool" -> Encoded(IF val.n = 1 THEN <<1>> ELSE <<0>>)
      [] val.t = "Uint8" -> Encoded(<<val.n>>)
      [] val.t = "Uint16" -> Encoded(LittleEndian(val.n, 2))
      [] val.t = "Uint32" -> Encoded(LittleEndian(val.n, 4))
      [] val.t = "Int8" -> Encoded(<<AsUnsigned(val.n, 1)>>)
      [] val.t = "Int16" -> Encoded(LittleEndian(AsUnsigned(val.n, 2), 2))
      [] val.t = "String" -> Encoded(val.s \o <<0>>)
      [] val.t = "Array" -> write_array(val.a, order)
      [] val.t = "Object" -> write_object(val.o, order)

\* write_structured_data: what dest.write is given, or the error.
write_structured_data(obj, order) == write_object(obj, order)

\* The decoder (Object::read, sd/decoder.rs) parses the wire format; a number
\* and a name hash are kept as their little-endian bytes.
Decoded(val, pos) == [err |-> "none", val |-> val, pos |-> pos]
DecodeError(e) == [err |-> e, val |-> Scalar(0, 0), pos |-> 0]

\* The width of the payload of a scalar type code.
ScalarWidth(code) ==
    CASE code = 0 -> 0
      [] code \in {1, 2, 6} -> 1
      [] code \in {3, 7} -> 2
      [] code \in {4, 8, 10} -> 4
      [] code \in {5, 9, 11} -> 8

\* The position of the first zero byte at or after pos, 0 when there is none.
RECURSIVE FindZero(_, _)
FindZero(bytes, pos) ==
    IF pos > Len(bytes) THEN 0
    ELSE IF bytes[pos] = 0 THEN pos
    ELSE FindZero(bytes, pos + 1)

RECURSIVE read_value(_, _, _)
RECURSIVE read_props(_, _, _, _)
RECURSIVE read_items(_, _, _, _)

\* The decoder's object: a count byte, then the entries.
read_object(bytes, pos) ==
    IF pos > Len(bytes)
    THEN DecodeError("Truncation")
    ELSE read_props(bytes, pos + 1, bytes[pos], <<>>)

\* The decoder's array: a count byte, then the items.
read_array(bytes, pos) ==
    IF pos > Len(bytes)
    THEN DecodeError("Truncation")
    ELSE read_items(bytes, pos + 1, bytes[pos], <<>>)

\* n more entries of an object: hash, type code, payload.
read_props(bytes, pos, n, obj) ==
    IF n = 0
    THEN Decoded(Value(14, 0, <<>>, <<>>, obj), pos)
    ELSE IF pos + 8 > Len(bytes)
    THEN DecodeError("Truncation")
    ELSE LET hash == SubSeq(bytes, pos, pos + 7)
             r == read_value(bytes, pos + 9, bytes[pos + 8])
         IN IF r.err # "none"
            THEN r
            ELSE read_props(bytes, r.pos, n - 1,
                    [h \in DOMAIN obj \cup {hash} |->
                        IF h = hash THEN r.val ELSE obj[h]])

\* n more items of an array: type code, payload.
read_items(bytes, pos, n, arr) ==
    IF n = 0
    THEN Decoded(Value(13, 0, <<>>, arr, <<>>), pos)
    ELSE IF pos > Len(bytes)
    THEN DecodeError("Truncation")
    ELSE LET r == read_value(bytes, pos + 1, bytes[pos])
         IN IF r.err # "none"
            THEN r
            ELSE read_items(bytes, r.pos, n - 1, Append(arr, r.val))

\* The payload of one value of the given type code.
read_value(bytes, pos, code) ==
    IF code > 14
    THEN DecodeError("Corruption")
    ELSE IF code = 14 THEN read_object(bytes, pos)
    ELSE IF code = 13 THEN read_array(bytes, pos)
    ELSE IF code = 12
    THEN IF FindZero(bytes, pos) = 0
         THEN DecodeError("Truncation")
         ELSE Decoded(Value(12, 0, SubSeq(bytes, pos, FindZero(bytes, pos) - 1), <<>>, <<>>),
                      FindZero(bytes, pos) + 1)
    ELSE IF pos + ScalarWidth(code) - 1 > Len(bytes)
    THEN DecodeError("Truncation")
    ELSE Decoded(Value(code, 0, SubSeq(bytes, pos, pos + ScalarWidth(code) - 1), <<>>,
                       <<>>),
                 pos + ScalarWidth(code))

\* read_structured_data: the object at the start of the source.
read_structured_data(bytes) == read_object(bytes, 1)

\* A Value as the decoder represents it.
RECURSIVE Canon(_)
Canon(val) ==
    CASE val.t = "String" -> Value(12, 0, val.s, <<>>, <<>>)
      [] val.t = "Array" ->
            Value(13, 0, <<>>, [k \in 1..Len(val.a) |-> Canon(val.a[k])], <<>>)
      [] val.t = "Object" ->
            Value(14, 0, <<>>, <<>>,
                  [b \in {LittleEndian(h, 8) : h \in DOMAIN val.o} |->
                      Canon(val.o[CHOOSE h \in DOMAIN val.o : LittleEndian(h, 8) = b])])
      [] OTHER ->
            Value(get_value_type_code(val), 0, write_value(val, "rising").bytes,
                  <<>>, <<>>)

\* The Values a caller stores: scalars, strings with and without a zero byte,
\* arrays and objects of at most MAX_COUNT entries, and an array and an object
\* (one level down) of MAX_COUNT + 1 entries.
NullArray(n) == ArrayValue([k \in 1..n |-> Null])
NullObject(n) == ObjectValue([h \in 1..n |-> Null])
SdValues ==
    {Null, Scalar("Bool", 1), Scalar("Uint16", 258), Scalar("Int8", -1),
     StringValue(<<120>>), StringValue(<<120, 0, 13>>),
     ArrayValue(<<Scalar("Int8", -1), Null>>), NullArray(MAX_COUNT),
     NullArray(MAX_COUNT + 1),
     ObjectValue(5 :> StringValue(<<120>>) @@ 3 :> Null),
     ObjectValue(5 :> NullObject(MAX_COUNT + 1))}

\* The hashes a caller stores them under.
SdHashes == 1..(MAX_COUNT + 1)

NoWrite == [err |-> "unwritten", count |-> 0]
NoRead == [err |-> "unread", val |-> Scalar(0, 0), pos |-> 0]

\* Object::raw_set
RawSet(hash, value) ==
    /\ write_result = NoWrite
    /\ object' = [h \in DOMAIN object \cup {hash} |-> IF h = hash THEN value ELSE object[h]]
    /\ UNCHANGED <<dest, write_result, read_result, beside_sd>>

\* Object::write, the destination taking the bytes or nothing being encoded.
SdWrite(order) ==
    /\ write_result = NoWrite
    /\ LET r == write_structured_data(object, order)
       IN /\ dest' = dest \o r.bytes
          /\ write_result' = [err |-> r.err, count |-> r.count]
    /\ UNCHANGED <<object, read_result, beside_sd>>

\* Object::write, the destination's write returning an error.
SdWriteFail(order) ==
    /\ write_result = NoWrite
    /\ write_structured_data(object, order).err = "none"
    /\ write_result' = [err |-> "io", count |-> 0]
    /\ UNCHANGED <<object, dest, read_result, beside_sd>>

\* Object::read on the bytes that were written.
SdRead ==
    /\ write_result.err = "none"
    /\ read_result = NoRead
    /\ read_result' = read_structured_data(dest)
    /\ UNCHANGED <<object, dest, write_result, beside_sd>>

NextSd ==
    \/ \E hash \in SdHashes, value \in SdValues : RawSet(hash, value)
    \/ \E order \in Orders : SdWrite(order)
    \/ \E order \in Orders : SdWriteFail(order)
    \/ SdRead

SpecSd == Init /\ [][NextSd]_vars

\* The counts of the Objects and Arrays a Value holds, itself included.
RECURSIVE Counts(_)
Counts(val) ==
    CASE val.t = "Array" ->
            {Len(val.a)} \cup UNION {Counts(val.a[k]) : k \in 1..Len(val.a)}
      [] val.t = "Object" ->
            {prop_count(val.o)} \cup UNION {Counts(val.o[h]) : h \in DOMAIN val.o}
      [] OTHER -> {}

\* The Strings a Value holds.
RECURSIVE StringsIn(_)
StringsIn(val) ==
    CASE val.t = "String" -> {val.s}
      [] val.t = "Array" -> UNION {StringsIn(val.a[k]) : k \in 1..Len(val.a)}
      [] val.t = "Object" -> UNION {StringsIn(val.o[h]) : h \in DOMAIN val.o}
      [] OTHER -> {}

Oversized == \E c \in Counts(ObjectValue(object)) : c > MAX_COUNT

\* C15: writing an Object that holds, at any depth, an Object or an Array of
\* more than 255 entries fails with PropCountExceeded carrying the count of
\* such an element, and the destination receives no byte.
C15_NoByteOnExceeded ==
    (write_result # NoWrite /\ Oversized) =>
        /\ write_result.err = "PropCountExceeded"
        /\ write_result.count \in Counts(ObjectValue(object))
        /\ write_result.count > MAX_COUNT
        /\ dest = <<>>

C15_Witness ==
    /\ write_result.err = "PropCountExceeded"
    /\ write_result.count = MAX_COUNT + 1
    /\ DOMAIN object = {1, 2}
    /\ object[1] = StringValue(<<120>>)
    /\ object[2].t = "Object"
    /\ prop_count(object[2].o) = 1

\* C16: the bytes written for an Object whose Objects and Arrays hold at most
\* 255 entries at every depth decode to the same Object, whatever the order in
\* which the encoder met the properties.
C16_RoundTrip ==
    (write_result.err = "none" /\ ~Oversized) =>
        read_structured_data(dest)
            = Decoded(Canon(ObjectValue(object)), Len(dest) + 1)

\* C17: every String the encoder emits has one zero byte, its last: no String
\* holding a zero byte is written.
C17_NoEmbeddedNul ==
    write_result.err = "none" =>
        \A s \in StringsIn(ObjectValue(object)) :
            FindZero(s \o <<0>>, 1) = Len(s) + 1

\* ------------------------------------------------------------ debug symbols
\* src/src/sd/debug.rs: a DebugSymbols holds a list of names and a map from
\* the hash of a name to the name; write stores the list in the property
\* `__debug__` of an Object, read builds the map from that property.

\* Most names pushed into one DebugSymbols.
MaxPush == 3

\* utils::hash: a deterministic hash of the bytes of a name, of the width of
\* MaxHash; like a 64-bit hash of strings of any length it maps some different
\* names to the same value.
RECURSIVE HashFrom(_, _)
HashFrom(val, s) ==
    IF s = <<>> THEN val
    ELSE HashFrom((val * 33 + Head(s)) % (MaxHash + 1), Tail(s))
hash(s) == HashFrom(5381 % (MaxHash + 1), s)

\* "__debug__"
DEBUG_PROP == <<95, 95, 100, 101, 98, 117, 103, 95, 95>>

\* The names pushed: a, b, i and ab.
Symbols == {<<97>>, <<98>>, <<105>>, <<97, 98>>}

\* Vec<String> into Value: an Array of Strings.
SymbolsValue(list) == ArrayValue([k \in 1..Len(list) |-> StringValue(list[k])])

\* Object::set
ObjectSet(obj, name, value) ==
    [h \in DOMAIN obj \cup {hash(name)} |-> IF h = hash(name) THEN value ELSE obj[h]]

\* DebugSymbols::read: the loop over the items of the Array from item k on.
RECURSIVE ReadSymbols(_, _, _)
ReadSymbols(val, k, symbols) ==
    IF k > Len(val.a)
    THEN [err |-> "none", symbols_map |-> symbols, symbols_list |-> <<>>]
    ELSE IF val.a[k].t # "String"
    THEN [err |-> "TypeError", symbols_map |-> <<>>, symbols_list |-> <<>>]
    ELSE ReadSymbols(val, k + 1, Insert(symbols, hash(val.a[k].s), val.a[k].s))

\* DebugSymbols::read
DebugSymbolsRead(obj) ==
    IF hash(DEBUG_PROP) \in DOMAIN obj
    THEN IF obj[hash(DEBUG_PROP)].t # "Array"
         THEN [err |-> "TypeError", symbols_map |-> <<>>, symbols_list |-> <<>>]
         ELSE ReadSymbols(obj[hash(DEBUG_PROP)], 1, <<>>)
    ELSE [err |-> "MissingProp", symbols_map |-> <<>>, symbols_list |-> <<>>]

\* DebugSymbols::lookup: an Option is the set of its values.
lookup(symbols, h) == IF h \in DOMAIN symbols THEN {symbols[h]} ELSE {}

\* DebugSymbols::push
DebugPush(symbol) ==
    /\ Len(symbols_list) < MaxPush
    /\ symbols_map' = Insert(symbols_map, hash(symbol), symbol)
    /\ symbols_list' = Append(symbols_list, symbol)
    /\ UNCHANGED <<symbols_read, sd, beside_debug>>

\* DebugSymbols::write
DebugWrite ==
    /\ object' = ObjectSet(object, DEBUG_PROP, SymbolsValue(symbols_list))
    /\ UNCHANGED <<dest, write_result, read_result, debug, beside_debug>>

\* DebugSymbols::read
DebugRead ==
    /\ symbols_read' = [DebugSymbolsRead(object) EXCEPT !.symbols_list = <<>>]
                          @@ [obj |-> object]
    /\ UNCHANGED <<symbols_map, symbols_list, sd, beside_debug>>

\* The Objects symbols are written to and read from: empty, or with a property
\* beside `__debug__`, or with a `__debug__` that is no Array.
NextDebug ==
    \/ \E symbol \in Symbols : DebugPush(symbol)
    \/ DebugWrite
    \/ DebugRead
    \/ \E h \in {1, hash(DEBUG_PROP)}, value \in {Null, StringValue(<<120>>)} :
            RawSet(h, value)

SpecDebug == Init /\ [][NextDebug]_vars

\* C18: reading the symbols of an Object to which the pushed names were
\* written succeeds, and the symbols read look every pushed name up under its
\* hash and nothing under any other hash; reading an Object without the
\* property `__debug__` fails with MissingProp.
C18_ReadAfterWrite ==
    /\ (/\ symbols_read.err # "unread"
        /\ symbols_read.obj = object
        /\ hash(DEBUG_PROP) \in DOMAIN object
        /\ object[hash(DEBUG_PROP)] = SymbolsValue(symbols_list)) =>
            /\ symbols_read.err = "none"
            /\ \A k \in 1..Len(symbols_list) :
                lookup(symbols_read.symbols_map, hash(symbols_list[k]))
                    = {symbols_list[k]}
            /\ \A h \in 0..MaxHash :
                h \notin {hash(symbols_list[k]) : k \in 1..Len(symbols_list)} =>
                    lookup(symbols_read.symbols_map, h) = {}
    /\ (/\ symbols_read.err # "unread"
        /\ hash(DEBUG_PROP) \notin DOMAIN symbols_read.obj) =>
            symbols_read.err = "MissingProp"

\* ====================================================== package encoder
\* variant/package/encoder.rs: PackageBuilder::build and PackageEncoder::pack,
\* pack_vname, pack_dir, pack_file and write_object, over the Encoder above.

\* Most pack and pack_vname calls on one package encoder.
MaxPacks == 2
\* The read buffer of write_object (8192 in the source).
DATA_WRITE_BUFFER_SIZE == 4
MIN_DATA_REMAINING_SIZE == DATA_WRITE_BUFFER_SIZE
\* The size of a data section before the margin is taken off (200000000 in
\* the source).
DataSectionCap == 32
\* The split limit of a data section.
MAX_DATA_SECTION_SIZE == DataSectionCap - MIN_DATA_REMAINING_SIZE

\* The section types of a package; the source imports them by name.
SECTION_TYPE_STRING == 255
SECTION_TYPE_SD == 254
DATA_SECTION_TYPE == 1

\* '/' as pack_dir joins names with it.
SLASH == 47

\* A file or a directory on disk: its name, and the bytes of a file or the
\* entries of a directory in the order read_dir yields them.
File(name, content) == [dir |-> FALSE, name |-> name, content |-> content, entries |-> <<>>]
Dir(name, entries) == [dir |-> TRUE, name |-> name, content |-> <<>>, entries |-> entries]

\* n bytes that tell one file from another.
Content(base, n) == [k \in 1..n |-> base + k]

\* The state of the Encoder a PackageEncoder borrows, with the files packed.
Borrowed ==
    [main_header |-> main_header, sections |-> sections,
     sections_data |-> sections_data, created |-> created, packed |-> packed,
     late |-> late]

\* Encoder::create_section on the borrowed Encoder; the handle it returns is
\* the index of the last section.
EncoderCreate(st, header) ==
    LET raised == [st.main_header EXCEPT !.section_num = @ + 1]
    IN [st EXCEPT
            !.main_header = raised,
            !.sections = PushAt(@, header),
            !.sections_data = PushAt(@, <<>>),
            !.created = Append(@, [header |-> header, bytes |-> <<>>,
                                   handle |-> Len(st.sections), raised |-> 1])]
LastHandle(st) == Len(st.sections) - 1

\* Encoder::open_section(handle) and write(buf) on the store it returns; the
\* package encoder never reads or seeks a store, so its cursor is at the end.
EncoderWrite(st, handle, buf) ==
    [st EXCEPT !.sections_data[handle + 1] = @ \o buf,
               !.created[handle + 1].bytes = @ \o buf,
               !.late = IF /\ st.sections[handle + 1].btype = DATA_SECTION_TYPE
                           /\ Len(st.sections_data[handle + 1]) >= MAX_DATA_SECTION_SIZE
                           /\ buf # <<>>
                        THEN Append(@, [section |-> handle, bytes |-> buf,
                                        newest |-> Len(st.sections) - 1])
                        ELSE @]

\* create_data_section_header
create_data_section_header ==
    SectionHeaderOf(FLAG_COMPRESS_XZ + FLAG_CHECK_CRC32, 0, DATA_SECTION_TYPE)

\* The strings section header of build.
strings_header ==
    SectionHeaderOf(FLAG_COMPRESS_ZLIB + FLAG_CHECK_WEAK, 0, SECTION_TYPE_STRING)

\* The metadata section header of build.
metadata_header ==
    SectionHeaderOf(FLAG_COMPRESS_ZLIB + FLAG_CHECK_WEAK, 0, SECTION_TYPE_SD)

\* StringSection::put on the strings section of the package.
StringsPut(st, handle, s) ==
    LET data == st.sections_data[handle + 1]
        wr == low_level_write_string(s, [bytes |-> data, cursor |-> Len(data)])
    IN [address |-> wr.ptr,
        st |-> [st EXCEPT !.sections_data[handle + 1] = wr.st.bytes,
                          !.created[handle + 1].bytes = wr.st.bytes]]

\* The first n elements of a sequence, and the rest.
Take(s, n) == SubSeq(s, 1, IF n < Len(s) THEN n ELSE Len(s))
Drop(s, n) == SubSeq(s, n + 1, Len(s))

\* PackageEncoder::write_object: source.read fills the buffer; after each
\* write the size of the data section is compared with the split limit.
\* Returns whether the source is exhausted, and what is left of it.
RECURSIVE pack_write_object(_, _, _)
pack_write_object(st, source, data_id) ==
    IF source = <<>>
    THEN [done |-> TRUE, st |-> st, source |-> source]
    ELSE LET st1 == EncoderWrite(st, data_id, Take(source, DATA_WRITE_BUFFER_SIZE))
             rest == Drop(source, DATA_WRITE_BUFFER_SIZE)
         IN IF Len(st1.sections_data[data_id + 1]) >= MAX_DATA_SECTION_SIZE
            THEN [done |-> FALSE, st |-> st1, source |-> rest]
            ELSE pack_write_object(st1, rest, data_id)

\* The record header of pack_file with the two fields in the other order.
RecordHeaderSwapped(size, address) == LittleEndian(address, 4) \o LittleEndian(size, 8)

\* The 12 bytes pack_file writes before the content of a file.
RecordHeader(size, address) == LittleEndian(size, 8) \o LittleEndian(address, 4)

\* The loop of pack_file: a new data section whenever write_object stopped
\* at the split limit.
RECURSIVE PackFileLoop(_, _, _)
PackFileLoop(st, source, data_id) ==
    LET wr == pack_write_object(st, source, data_id)
    IN IF wr.done
       THEN [st |-> wr.st, data_id |-> data_id]
       ELSE LET st1 == EncoderCreate(wr.st, create_data_section_header)
            IN PackFileLoop(st1, wr.source, LastHandle(st1))

\* PackageEncoder::pack_file: the data section it ended in.
pack_file(st, source, name, data_id1, strs) ==
    LET put == StringsPut(st, strs, name)
        size == Len(source.content)
        st1 == EncoderWrite(put.st, data_id1, RecordHeader(size, put.address))
        st2 == [st1 EXCEPT !.packed = Append(@,
                    [name |-> name, content |-> source.content,
                     address |-> put.address, section |-> data_id1,
                     at |-> Len(st.sections_data[data_id1 + 1])])]
    IN PackFileLoop(st2, source.content, data_id1)

\* PackageEncoder::pack_dir from entry k on: a file moves data_id to the
\* section pack_file ended in, a directory returns nothing and leaves it.
RECURSIVE PackDirFrom(_, _, _, _, _, _)
PackDirFrom(st, entries, k, name, data_id, strs) ==
    IF k > Len(entries) THEN st
    ELSE LET entry == entries[k]
             s == name \o <<SLASH>> \o entry.name
         IN IF entry.dir
            THEN PackDirFrom(PackDirFrom(st, entry.entries, 1, s, data_id, strs),
                             entries, k + 1, name, data_id, strs)
            ELSE LET res == pack_file(st, entry, s, data_id, strs)
                 IN PackDirFrom(res.st, entries, k + 1, name, res.data_id, strs)

\* PackageEncoder::pack_dir
pack_dir(st, source, name, data_id1, strs) ==
    PackDirFrom(st, source.entries, 1, name, data_id1, strs)

\* PackageEncoder::pack_vname: a new data section, then the file or the tree.
pack_vname(st, source, vname, strs) ==
    LET st1 == EncoderCreate(st, create_data_section_header)
        data_section == LastHandle(st1)
    IN IF source.dir
       THEN pack_dir(st1, source, vname, data_section, strs)
       ELSE pack_file(st1, source, vname, data_section, strs).st

\* PackageEncoder::pack: the name is the last component of the path.
pack(st, source, strs) == pack_vname(st, source, source.name, strs)

\* The codes build stores for an architecture and for a platform.
ArchitectureCode(arch) ==
    CASE arch = "X86_64" -> 0
      [] arch = "Aarch64" -> 1
      [] arch = "X86" -> 2
      [] arch = "Armv7hl" -> 3
      [] arch = "Any" -> 4
PlatformCode(platform) ==
    CASE platform = "Linux" -> 0
      [] platform = "Mac" -> 1
      [] platform = "Windows" -> 2
      [] platform = "Android" -> 3
      [] platform = "Any" -> 4

\* The type_ext of build (bytes count from 0 in the source, from 1 here).
PackageTypeExt(b) ==
    [k \in 1..16 |->
        CASE k = 1 -> ArchitectureCode(b.architecture)
          [] k = 2 -> PlatformCode(b.platform)
          [] k = 3 -> b.type_code[1]
          [] k = 4 -> b.type_code[2]
          [] OTHER -> 0]

\* The main header of build: MainHeaderBuilder::new with the type 'P' and the
\* type_ext.
PackageMainHeader(b) ==
    [NewMainHeader EXCEPT !.btype = 80, !.type_ext = PackageTypeExt(b)]

\* The borrowed Encoder and the files packed, as an operation leaves them.
Commit(st) ==
    /\ main_header' = st.main_header
    /\ sections' = st.sections
    /\ sections_data' = st.sections_data
    /\ created' = st.created
    /\ packed' = st.packed
    /\ late' = st.late

\* PackageBuilder::with_architecture
WithArchitecture(arch) ==
    /\ package_strings = {}
    /\ builder' = [builder EXCEPT !.architecture = arch]
    /\ UNCHANGED <<main_header, sections, sections_data, created, package_strings,
                   calls, packed, late>>
    /\ UNCHANGED beside_package

\* PackageBuilder::with_platform
WithPlatform(platform) ==
    /\ package_strings = {}
    /\ builder' = [builder EXCEPT !.platform = platform]
    /\ UNCHANGED <<main_header, sections, sections_data, created, package_strings,
                   calls, packed, late>>
    /\ UNCHANGED beside_package

\* PackageBuilder::with_metadata
WithMetadata(obj) ==
    /\ package_strings = {}
    /\ builder' = [builder EXCEPT !.metadata = {obj}]
    /\ UNCHANGED <<main_header, sections, sections_data, created, package_strings,
                   calls, packed, late>>
    /\ UNCHANGED beside_package

\* PackageBuilder::with_variant
WithVariant(type_code) ==
    /\ package_strings = {}
    /\ builder' = [builder EXCEPT !.type_code = type_code, !.with_variant = TRUE]
    /\ UNCHANGED <<main_header, sections, sections_data, created, package_strings,
                   calls, packed, late>>
    /\ UNCHANGED beside_package

\* PackageBuilder::build on a new Encoder.
PackageBuild ==
    /\ pc = "idle"
    /\ saves = 0
    /\ package_strings = {}
    /\ LET metadata == builder.metadata
           st0 == [Borrowed EXCEPT !.main_header = PackageMainHeader(builder)]
           st1 == EncoderCreate(st0, strings_header)
           st2 == EncoderCreate(st1, metadata_header)
       IN /\ package_strings' = {LastHandle(st1)}
          /\ IF metadata = {}
             THEN Commit(st1)
             ELSE Commit(EncoderWrite(st2, LastHandle(st2),
                      write_structured_data(CHOOSE o \in metadata : TRUE,
                                            "rising").bytes))
    /\ UNCHANGED <<calls, builder>>
    /\ UNCHANGED beside_package

\* PackageEncoder::pack
Pack(source) ==
    /\ pc = "idle"
    /\ saves = 0
    /\ package_strings # {}
    /\ Len(calls) < MaxPacks
    /\ Commit(pack(Borrowed, source, CHOOSE h \in package_strings : TRUE))
    /\ calls' = Append(calls, [op |-> "pack", source |-> source,
                               vname |-> source.name])
    /\ UNCHANGED <<package_strings, builder>>
    /\ UNCHANGED beside_package

\* PackageEncoder::pack_vname
PackVname(source, vname) ==
    /\ pc = "idle"
    /\ saves = 0
    /\ package_strings # {}
    /\ Len(calls) < MaxPacks
    /\ Commit(pack_vname(Borrowed, source, vname,
                         CHOOSE h \in package_strings : TRUE))
    /\ calls' = Append(calls, [op |-> "pack_vname", source |-> source,
                               vname |-> vname])
    /\ UNCHANGED <<package_strings, builder>>
    /\ UNCHANGED beside_package

\* The sources: an empty file, a short file, a file that with its record header
\* ends at the split limit, a file that passes it, a directory of two short
\* files, a directory of a long file and a short one, and a directory whose
\* subdirectory holds the long file before a short file of its own.
EmptyFile == File(<<97>>, <<>>)
ShortFile == File(<<98>>, Content(0, 2))
OtherShortFile == File(<<101>>, Content(10, 1))
EdgeFile == File(<<99>>, Content(20, MAX_DATA_SECTION_SIZE - 12))
LongFile == File(<<100>>, Content(40, MAX_DATA_SECTION_SIZE - 10))
FlatDir == Dir(<<120>>, <<OtherShortFile, ShortFile>>)
SplitDir == Dir(<<119>>, <<LongFile, OtherShortFile>>)
NestedDir == Dir(<<121>>, <<Dir(<<122>>, <<LongFile>>), OtherShortFile>>)
\* A directory of a file that leaves one byte of room below the split limit,
\* a file of no byte, and a short file.
NearFile == File(<<110>>, Content(60, MAX_DATA_SECTION_SIZE - 13))
BrimDir == Dir(<<117>>, <<NearFile, EmptyFile, OtherShortFile>>)
Sources ==
    {EmptyFile, ShortFile, EdgeFile, LongFile, FlatDir, SplitDir, NestedDir, BrimDir}
VNames == {<<118>>, <<102, 47, 103>>}
\* The Objects given to with_metadata: one of one property.
MetadataObjects == {1 :> Null}

NextPackage ==
    \/ \E obj \in MetadataObjects : WithMetadata(obj)
    \/ PackageBuild
    \/ \E source \in Sources : Pack(source)
    \/ \E source \in Sources, vname \in VNames : PackVname(source, vname)

SpecPackage == Init /\ [][NextPackage]_vars

\* The payloads of the data sections from section k on, in section order.
RECURSIVE DataStreamFrom(_)
DataStreamFrom(k) ==
    IF k > Len(sections) THEN <<>>
    ELSE (IF sections[k].btype = DATA_SECTION_TYPE THEN sections_data[k] ELSE <<>>)
             \o DataStreamFrom(k + 1)

\* The records of the files packed from file j on, in the order of packing.
RECURSIVE RecordsFrom(_)
RecordsFrom(j) ==
    IF j > Len(packed) THEN <<>>
    ELSE RecordHeader(Len(packed[j].content), packed[j].address)
             \o packed[j].content \o RecordsFrom(j + 1)

\* C19: the payloads of the data sections, concatenated in section order, are
\* the records of the packed files in the order of packing, each the 12-byte
\* header followed by the whole content of its file.
C19_OneByteStream == DataStreamFrom(1) = RecordsFrom(1)

\* The handles (as indices) of the data sections.
DataSections == {k \in 1..Len(sections) : sections[k].btype = DATA_SECTION_TYPE}

\* One file was packed, by one call, on a package built without metadata.
SingleFile ==
    /\ package_strings # {}
    /\ Len(calls) = 1
    /\ ~calls[1].source.dir
    /\ \A k \in 1..Len(sections) : sections[k].btype # SECTION_TYPE_SD

\* The one data section holds the record of the file packed by calls[1], the
\* strings section holds its name and a zero byte.
SingleRecord ==
    /\ Cardinality(DataSections) = 1
    /\ \A k \in DataSections :
           sections_data[k] = LittleEndian(Len(calls[1].source.content), 8)
                                  \o LittleEndian(0, 4) \o calls[1].source.content
    /\ \A h \in package_strings : sections_data[h + 1] = calls[1].vname \o <<0>>

\* The length of the names, with terminators, of the files packed before k.
NamesBefore(k) == SumSeq([j \in 1..(k - 1) |-> Len(packed[j].name) + 1])

\* The record header of the k-th file packed holds NamesBefore(k) as its
\* name offset.
NameOffsets ==
    \A k \in 1..Len(packed) :
        SubSeq(sections_data[packed[k].section + 1], packed[k].at + 9,
               packed[k].at + 12) = LittleEndian(NamesBefore(k), 4)

\* C20 as stated: a single file whose content is shorter than the split limit
\* leaves one data section holding the length, the offset 0 and the content,
\* and a strings section holding the name and a zero byte; the k-th file's
\* record holds the length of the names stored before it.
C20_SingleFileRecord ==
    /\ (SingleFile /\ Len(calls[1].source.content) < MAX_DATA_SECTION_SIZE)
           => SingleRecord
    /\ NameOffsets

\* C20 amended: the same for a single file whose record, the 12-byte header
\* with the content, is shorter than the split limit.
C20_SingleFileRecordFits ==
    /\ (SingleFile /\ 12 + Len(calls[1].source.content) < MAX_DATA_SECTION_SIZE)
           => SingleRecord
    /\ NameOffsets

C20_Witness ==
    /\ SingleFile
    /\ calls[1].source = ShortFile
    /\ Len(packed) = 1
    /\ packed[1].address = 0

\* C25: no byte, of a record header or of a content, is written to a data
\* section whose size has reached MAX_DATA_SECTION_SIZE.
C25_FullSectionFinal == late = <<>>

\* The builder specification: every setter of PackageBuilder, then build.
Architectures == {"X86_64", "Aarch64", "X86", "Armv7hl", "Any"}
Platforms == {"Linux", "Mac", "Windows", "Android", "Any"}
TypeCodes == {<<80, 75>>, <<80, 72>>, <<1, 2>>}

NextBuilder ==
    \/ \E arch \in Architectures : WithArchitecture(arch)
    \/ \E platform \in Platforms : WithPlatform(platform)
    \/ \E obj \in MetadataObjects : WithMetadata(obj)
    \/ \E type_code \in TypeCodes : WithVariant(type_code)
    \/ PackageBuild

SpecBuilder == Init /\ [][NextBuilder]_vars

\* C21: a built package carries the architecture and platform codes in bytes 0
\* and 1 of type_ext, and in bytes 2 and 3 the code given to with_variant, or
\* 'P' 'K' (0x50, 0x4B) when with_variant was never called.
C21_DefaultVariantPK ==
    package_strings # {} =>
        /\ main_header.type_ext[1] = ArchitectureCode(builder.architecture)
        /\ main_header.type_ext[2] = PlatformCode(builder.platform)
        /\ builder.with_variant =>
               /\ main_header.type_ext[3] = builder.type_code[1]
               /\ main_header.type_ext[4] = builder.type_code[2]
        /\ ~builder.with_variant =>
               /\ main_header.type_ext[3] = 80
               /\ main_header.type_ext[4] = 75

\* ================================================== shader pack decoder
\* variant/shader/decoder.rs: ShaderPackDecoder::new over what Decoder::new
\* yields.

\* The version of the shader pack variant the decoder reads.
SUPPORTED_VERSION == 1
\* The section types of a shader pack; the source imports them by name.
SECTION_TYPE_SHADER == 1
SECTION_TYPE_SYMBOL_TABLE == 2

\* Decoder::find_section_by_type: the first handle whose header has the type.
find_section_by_type(types, btype) ==
    LET found == {k \in 1..Len(types) : types[k] = btype}
    IN IF found = {} THEN {}
       ELSE {(CHOOSE k \in found : \A j \in found : k <= j) - 1}

\* The result of get_target_type_from_code.
TargetType(err, target, btype) == [err |-> err, target |-> target, btype |-> btype]

\* get_target_type_from_code
get_target_type_from_code(acode, tcode) ==
    LET target == CASE acode = 1 -> "DX11"
                    [] acode = 2 -> "DX12"
                    [] acode = 3 -> "GL33"
                    [] acode = 4 -> "GL40"
                    [] acode = 5 -> "VK10"
                    [] acode = 6 -> "MT"
                    [] acode = 255 -> "Any"
                    [] OTHER -> ""
    IN IF target = "" THEN TargetType("Corruption", "", "")
       ELSE IF tcode = 65 THEN TargetType("none", target, "Assembly")
       ELSE IF tcode = 80 THEN TargetType("none", target, "Pipeline")
       ELSE TargetType("Corruption", "", "")

\* ShaderPackDecoder::new testing the version before the type.
shader_new_version_first(d) ==
    IF d.err # "none" THEN ShaderPackErr(d.err)
    ELSE IF d.version # SUPPORTED_VERSION THEN ShaderPackErr("Unsupported")
    ELSE IF d.btype # 80 THEN ShaderPackErr("Corruption")
    ELSE LET tt == get_target_type_from_code(d.acode, d.tcode)
             strs == find_section_by_type(d.types, SECTION_TYPE_STRING)
             symbol_table == find_section_by_type(d.types, SECTION_TYPE_SYMBOL_TABLE)
         IN IF tt.err # "none" THEN ShaderPackErr(tt.err)
            ELSE IF strs = {} THEN ShaderPackErr("Corruption")
            ELSE IF symbol_table = {} THEN ShaderPackErr("Corruption")
            ELSE ShaderPack("none", tt.target, tt.btype, strs, symbol_table)

\* ShaderPackDecoder::new, d being what Decoder::new(backend) returned.
shader_new(d) ==
    IF d.err # "none" THEN ShaderPackErr(d.err)
    ELSE IF d.btype # 80 THEN ShaderPackErr("Corruption")
    ELSE IF d.version # SUPPORTED_VERSION THEN ShaderPackErr("Unsupported")
    ELSE LET tt == get_target_type_from_code(d.acode, d.tcode)
             strs == find_section_by_type(d.types, SECTION_TYPE_STRING)
             symbol_table == find_section_by_type(d.types, SECTION_TYPE_SYMBOL_TABLE)
         IN IF tt.err # "none" THEN ShaderPackErr(tt.err)
            ELSE IF strs = {} THEN ShaderPackErr("Corruption")
            ELSE IF symbol_table = {} THEN ShaderPackErr("Corruption")
            ELSE ShaderPack("none", tt.target, tt.btype, strs, symbol_table)

\* ShaderPackDecoder::new on a backend of which Decoder::new made d.
ShaderPackDecoderNew(d) ==
    /\ container' = d
    /\ shader_pack' = shader_new(d)
    /\ UNCHANGED beside_shader

\* The containers: the types 'P' and 'S', the supported version and the next,
\* target codes in and out of 1..6 and 0xFF, the type codes 'A', 'P' and 'S',
\* and section lists with and without a strings and a symbol-table section.
SectionLists ==
    {<<>>, <<SECTION_TYPE_STRING>>, <<SECTION_TYPE_SYMBOL_TABLE>>,
     <<SECTION_TYPE_STRING, SECTION_TYPE_SYMBOL_TABLE>>,
     <<SECTION_TYPE_SYMBOL_TABLE, SECTION_TYPE_SHADER, SECTION_TYPE_STRING,
       SECTION_TYPE_STRING>>}
Containers ==
    {DecoderOf("none", btype, version, acode, tcode, types) :
        btype \in {80, 83}, version \in {SUPPORTED_VERSION, SUPPORTED_VERSION + 1},
        acode \in {0, 1, 6, 7, 255}, tcode \in {65, 80, 83}, types \in SectionLists}
\* The backends Decoder::new rejects.
Rejected ==
    {DecoderOf(err, 0, 0, 0, 0, <<>>) : err \in {"Io", "Checksum", "Truncation"}}

NextShader == \E d \in Containers \cup Rejected : ShaderPackDecoderNew(d)

SpecShader == Init /\ [][NextShader]_vars

\* The container has every property ShaderPackDecoder::new asks for.
Accepted(d) ==
    /\ d.btype = 80
    /\ d.version = SUPPORTED_VERSION
    /\ d.acode \in (1..6) \cup {255}
    /\ d.tcode \in {65, 80}
    /\ \E k \in 1..Len(d.types) : d.types[k] = SECTION_TYPE_STRING
    /\ \E k \in 1..Len(d.types) : d.types[k] = SECTION_TYPE_SYMBOL_TABLE

MaxXzLen == 3
\* The size of inbuf and outbuf of do_deflate (8192 in the source).
ENCODER_BUF_SIZE == 2
DECODER_BUF_SIZE == ENCODER_BUF_SIZE * 2

\* The coder behind lzma_code is liblzma; it is taken as a stream coder that
\* frames the encoded bytes between a header and a footer.
LZMA_HEADER == 253
LZMA_FOOTER == 254
LzmaEncoded(bytes) == [k \in 1..Len(bytes) |-> bytes[k] + 100]

\* What lzma_code returns with the stream it leaves: the input is consumed,
\* the output not yet handed out is moved to outbuf while it has room.
\* LZMA_BUF_ERROR is the answer to the second call in a row that could neither
\* consume nor produce a byte.
LzmaCoded(q, phase, bad, stall, inbuf, outbuf, done, room) ==
    LET moved == Take(q, room - Len(outbuf))
        left == Drop(q, room - Len(outbuf))
        progress == inbuf # <<>> \/ moved # <<>>
    IN [lz |-> [q |-> left, phase |-> phase, stall |-> ~progress, bad |-> bad],
        outbuf |-> outbuf \o moved,
        res |-> IF bad THEN "LZMA_DATA_ERROR"
                ELSE IF done /\ left = <<>> THEN "LZMA_STREAM_END"
                ELSE IF progress \/ ~stall THEN "LZMA_OK"
                ELSE "LZMA_BUF_ERROR"]

\* lzma_code on the stream of new_encoder.
lzma_encode(lz, inbuf, outbuf, action) ==
    LET new == (IF lz.phase = "header" THEN <<LZMA_HEADER>> ELSE <<>>)
                   \o LzmaEncoded(inbuf)
                   \o (IF action = "LZMA_FINISH" /\ lz.phase # "end"
                       THEN <<LZMA_FOOTER>> ELSE <<>>)
        phase == IF action = "LZMA_FINISH" THEN "end" ELSE "data"
    IN LzmaCoded(lz.q \o new, phase, FALSE, lz.stall, inbuf, outbuf,
                 phase = "end", ENCODER_BUF_SIZE)

\* The decoder reading the bytes of inbuf one after the other.
RECURSIVE LzmaParse(_, _)
LzmaParse(lz, bytes) ==
    IF bytes = <<>> \/ lz.bad THEN lz
    ELSE LET b == Head(bytes)
             next ==
                 IF lz.phase \in {"header", "between"}
                 THEN IF b = LZMA_HEADER THEN [lz EXCEPT !.phase = "data"]
                      ELSE [lz EXCEPT !.bad = TRUE]
                 ELSE IF b = LZMA_FOOTER THEN [lz EXCEPT !.phase = "between"]
                 ELSE IF b >= 100 /\ b < LZMA_HEADER
                      THEN [lz EXCEPT !.q = Append(@, b - 100)]
                 ELSE [lz EXCEPT !.bad = TRUE]
         IN LzmaParse(next, Tail(bytes))

\* lzma_code on the stream of new_decoder (LZMA_CONCATENATED: the end of the
\* stream is told only when the caller finishes).
lzma_decode(lz, inbuf, outbuf, action) ==
    LET parsed == LzmaParse(lz, inbuf)
    IN LzmaCoded(parsed.q, parsed.phase, parsed.bad, lz.stall, inbuf, outbuf,
                 action = "LZMA_FINISH" /\ parsed.phase = "between",
                 DECODER_BUF_SIZE)

\* The counts a read of up to n bytes returns on a source with avail bytes
\* left: any count from 1 on, 0 at the end of the source.
ReadCounts(avail, n) ==
    IF avail = 0 \/ n = 0 THEN {0}
    ELSE 1..(IF avail < n THEN avail ELSE n)

\* The counts a write of size bytes accepts: all of them, or a part.
WriteCounts(size) == IF size = 0 THEN {0} ELSE 1..size

Min(a, b) == IF a < b THEN a ELSE b

\* do_inflate: the most bytes one read asks the source for.
inflate_read_limit(remaining) == Min(ENCODER_BUF_SIZE, remaining)

\* XzCompressionMethod::deflate called: new_encoder, the locals of do_deflate.
XzDeflate(source, inflated_size) ==
    /\ xz_loc.op = "idle"
    /\ xz_source' = [bytes |-> source, cursor |-> 0]
    /\ xz_sink' = <<>>
    /\ xz_tap' = <<>>
    /\ xz_loc' = XzLocals("deflate", inflated_size)
    /\ lzma' = NewLzma
    /\ UNCHANGED xz_deflated
    /\ UNCHANGED beside_xz

\* One turn of the loop of do_deflate: the read when inbuf is used up and
\* count is below inflated_size, lzma_code, the write of outbuf when it is
\* full or the stream ended, and the return when lzma_code did not say OK.
XzDeflateStep(len, n) ==
    /\ xz_loc.op = "deflate"
    /\ LET reading == xz_loc.inbuf = <<>> /\ xz_loc.count < xz_loc.size
           avail == Len(xz_source.bytes) - xz_source.cursor
           chunk == SubSeq(xz_source.bytes, xz_source.cursor + 1,
                           xz_source.cursor + len)
           count == xz_loc.count + len
           action == IF reading /\ count = xz_loc.size THEN "LZMA_FINISH"
                     ELSE xz_loc.action
           code == lzma_encode(lzma, IF reading THEN chunk ELSE xz_loc.inbuf,
                               xz_loc.outbuf, action)
           flush == Len(code.outbuf) = ENCODER_BUF_SIZE
                        \/ code.res = "LZMA_STREAM_END"
           size == Len(code.outbuf)
       IN /\ len \in (IF reading THEN ReadCounts(avail, ENCODER_BUF_SIZE) ELSE {0})
          /\ n \in (IF flush THEN WriteCounts(size) ELSE {0})
          /\ xz_source' = [xz_source EXCEPT !.cursor = @ + len]
          /\ xz_tap' = IF reading THEN xz_tap \o chunk ELSE xz_tap
          /\ xz_sink' = xz_sink \o Take(code.outbuf, n)
          /\ lzma' = code.lz
          /\ xz_loc' = [xz_loc EXCEPT
                 !.count = count,
                 !.action = action,
                 !.inbuf = <<>>,
                 !.outbuf = IF flush THEN <<>> ELSE code.outbuf,
                 !.csize = IF flush THEN @ + size ELSE @,
                 !.short = @ \/ (flush /\ n < size),
                 !.op = IF code.res = "LZMA_OK" THEN "deflate" ELSE "deflated",
                 !.err = IF code.res \in {"LZMA_OK", "LZMA_STREAM_END"} THEN "none"
                         ELSE "Deflate"]
          /\ xz_deflated' =
                 IF code.res = "LZMA_OK" THEN xz_deflated
                 ELSE [source |-> xz_source.bytes, size |-> xz_loc.size,
                       read |-> xz_source'.cursor, tap |-> xz_tap',
                       sink |-> xz_sink', err |-> xz_loc'.err,
                       csize |-> xz_loc'.csize, short |-> xz_loc'.short]
    /\ UNCHANGED beside_xz

\* XzCompressionMethod::inflate called on what the deflate before it wrote,
\* followed in the source by extra, with the csize that deflate returned.
XzInflate(extra) ==
    /\ xz_loc.op = "deflated"
    /\ xz_loc.err = "none"
    /\ xz_source' = [bytes |-> xz_sink \o extra, cursor |-> 0]
    /\ xz_sink' = <<>>
    /\ xz_tap' = <<>>
    /\ xz_loc' = XzLocals("inflate", xz_loc.csize)
    /\ lzma' = NewLzma
    /\ UNCHANGED xz_deflated
    /\ UNCHANGED beside_xz

\* One turn of the loop of do_inflate.
XzInflateStep(len, n) ==
    /\ xz_loc.op = "inflate"
    /\ LET reading == xz_loc.inbuf = <<>> /\ xz_loc.remaining > 0
           avail == Len(xz_source.bytes) - xz_source.cursor
           chunk == SubSeq(xz_source.bytes, xz_source.cursor + 1,
                           xz_source.cursor + len)
           remaining == xz_loc.remaining - len
           action == IF reading /\ remaining = 0 THEN "LZMA_FINISH"
                     ELSE xz_loc.action
           code == lzma_decode(lzma, IF reading THEN chunk ELSE xz_loc.inbuf,
                               xz_loc.outbuf, action)
           flush == Len(code.outbuf) = DECODER_BUF_SIZE
                        \/ code.res = "LZMA_STREAM_END"
           size == Len(code.outbuf)
       IN /\ len \in (IF reading
                      THEN ReadCounts(avail, inflate_read_limit(xz_loc.remaining))
                      ELSE {0})
          /\ n \in (IF flush THEN WriteCounts(size) ELSE {0})
          /\ xz_source' = [xz_source EXCEPT !.cursor = @ + len]
          /\ xz_tap' = IF flush THEN xz_tap \o code.outbuf ELSE xz_tap
          /\ xz_sink' = xz_sink \o Take(code.outbuf, n)
          /\ lzma' = code.lz
          /\ xz_loc' = [xz_loc EXCEPT
                 !.remaining = remaining,
                 !.action = action,
                 !.inbuf = <<>>,
                 !.outbuf = IF flush THEN <<>> ELSE code.outbuf,
                 !.short = @ \/ (flush /\ n < size),
                 !.op = IF code.res = "LZMA_OK" THEN "inflate" ELSE "inflated",
                 !.err = IF code.res \in {"LZMA_OK", "LZMA_STREAM_END"} THEN "none"
                         ELSE "Inflate"]
    /\ UNCHANGED xz_deflated
    /\ UNCHANGED beside_xz

\* The sources: every sequence of up to MaxXzLen bytes of 1..MaxByte.
RECURSIVE XzSeqs(_)
XzSeqs(n) ==
    IF n = 0 THEN {<<>>}
    ELSE XzSeqs(n - 1) \cup {Append(s, b) : s \in {x \in XzSeqs(n - 1) : Len(x) = n - 1},
                                            b \in Bytes}
XzSources == XzSeqs(MaxXzLen)

NextXz ==
    \/ \E source \in XzSources, size \in 0..MaxXzLen : XzDeflate(source, size)
    \/ \E len \in 0..ENCODER_BUF_SIZE, n \in 0..ENCODER_BUF_SIZE : XzDeflateStep(len, n)
    \/ \E extra \in {<<>>, <<LZMA_HEADER>>, <<1>>} : XzInflate(extra)
    \/ \E len \in 0..ENCODER_BUF_SIZE, n \in 0..DECODER_BUF_SIZE : XzInflateStep(len, n)

SpecXz == Init /\ [][NextXz]_vars

\* C23: deflate never reads past inflated_size, the tap has received just the
\* bytes read, in order; when it returns Ok it has read inflated_size bytes
\* and the csize it returns is the number of bytes the sink took.
C23_DeflateReadsExactly ==
    /\ xz_loc.op \in {"deflate", "deflated"} =>
           /\ xz_source.cursor <= xz_loc.size
           /\ xz_tap = Take(xz_source.bytes, xz_source.cursor)
    /\ (xz_loc.op = "deflated" /\ xz_loc.err = "none") =>
           /\ xz_source.cursor = xz_loc.size
           /\ xz_loc.csize = Len(xz_sink)

\* C24: deflate of B pushes B to its tap; inflate over what deflate wrote
\* reads no more than deflated_size bytes, writes B to its sink and pushes to
\* its tap the bytes it writes.
C24_TapSymmetry ==
    /\ (xz_loc.op = "deflated" /\ xz_loc.size = Len(xz_source.bytes)) =>
           xz_tap = xz_source.bytes
    /\ xz_loc.op \in {"inflate", "inflated"} =>
           /\ xz_source.cursor <= xz_loc.size
           /\ xz_tap = xz_sink
    /\ (xz_loc.op = "inflated" /\ xz_deflated.size = Len(xz_deflated.source)) =>
           xz_sink = xz_deflated.source

\* ================================================= save(), byte by byte
\* encoder.rs: write_section_uncompressed and write_data_file as loops of
\* reads and writes, for an encoder of one section stored uncompressed.

\* The buffer of write_section_uncompressed and of write_data_file (8192 in
\* the source).
READ_BLOCK_SIZE == 2

\* save() called: write_sections seeks the section to its start and
\* write_section_uncompressed begins.
CopySave(section) ==
    /\ cp.pc = "idle"
    /\ cp' = [NoCopy EXCEPT !.pc = "stage", !.section = section]
    /\ UNCHANGED beside_copy

\* write_section_uncompressed, one turn of the loop: a read of the section, a
\* write to the staging file of which n bytes are accepted, the push.
CopyStage(len, n) ==
    /\ cp.pc = "stage"
    /\ cp.count < Len(cp.section)
    /\ len \in ReadCounts(Len(cp.section) - cp.cursor, READ_BLOCK_SIZE)
    /\ n \in WriteCounts(len)
    /\ LET idata == SubSeq(cp.section, cp.cursor + 1, cp.cursor + len)
       IN cp' = [cp EXCEPT !.cursor = @ + len,
                           !.staging = @ \o Take(idata, n),
                           !.tap = @ \o idata,
                           !.count = @ + len,
                           !.turn = 1 - @]
    /\ UNCHANGED beside_copy

\* write_section_uncompressed returns section.size(); write_sections returns;
\* save() sets file_size, writes the main header and the section header, and
\* write_data_file seeks the staging file to its start.
CopyStaged ==
    /\ cp.pc = "stage"
    /\ cp.count >= Len(cp.section)
    /\ cp' = [cp EXCEPT !.pc = "emit",
                        !.all_sections_size = Len(cp.section),
                        !.file_size = SaveFileSize(Len(cp.section), 1),
                        !.headers = SIZE_MAIN_HEADER + SIZE_SECTION_HEADER,
                        !.seek = 0,
                        !.count = 0,
                        !.turn = 0]
    /\ UNCHANGED beside_copy

\* write_data_file, one turn of the loop: a read of the staging file, a write
\* to the sink of which n bytes are accepted.
CopyEmit(len, n) ==
    /\ cp.pc = "emit"
    /\ cp.count < cp.all_sections_size
    /\ len \in ReadCounts(Len(cp.staging) - cp.seek, READ_BLOCK_SIZE)
    /\ n \in WriteCounts(len)
    /\ LET idata == SubSeq(cp.staging, cp.seek + 1, cp.seek + len)
       IN cp' = [cp EXCEPT !.seek = @ + len,
                           !.sink = @ \o Take(idata, n),
                           !.count = @ + len,
                           !.turn = 1 - @]
    /\ UNCHANGED beside_copy

\* write_data_file returns, save() returns Ok.
CopyDone ==
    /\ cp.pc = "emit"
    /\ cp.count >= cp.all_sections_size
    /\ cp' = [cp EXCEPT !.pc = "done"]
    /\ UNCHANGED beside_copy

NextCopy ==
    \/ \E section \in XzSources : CopySave(section)
    \/ \E len \in 0..READ_BLOCK_SIZE, n \in 0..READ_BLOCK_SIZE : CopyStage(len, n)
    \/ CopyStaged
    \/ \E len \in 0..READ_BLOCK_SIZE, n \in 0..READ_BLOCK_SIZE : CopyEmit(len, n)
    \/ CopyDone

\* A started save() keeps running: no step of it is put off for ever.
SpecCopy == Init /\ [][NextCopy]_vars /\ WF_vars(NextCopy)

\* C26: when save() has returned Ok the sink has accepted file_size bytes: the
\* headers and every byte of the section.
C26_SinkHoldsFileSize ==
    cp.pc = "done" =>
        /\ cp.headers + Len(cp.sink) = cp.file_size
        /\ cp.sink = cp.section

\* C29: save() returns: the copy from the section to the staging file and the
\* copy from the staging file to the sink both come to an end.
C29_SaveTerminates == (cp.pc = "stage") ~> (cp.pc = "done")

\* ================================================= NamedItemTable (table.rs)

\* Most items one table holds.
MaxItems == 3

\* The strings section the names of the items are in: StringSection::get of
\* an address gives the string stored there.
TableStrings == (0 :> "a") @@ (2 :> "b")
\* The names asked for: the two stored and one no item has.
ItemNames == {"a", "b", "c"}
\* The items: the address of the name, and what tells two items of one name
\* apart.
Items == [name_address : DOMAIN TableStrings, tag : 1..2]

\* Item::get_name_address
get_name_address(item) == item.name_address

\* NamedItemTable::load_name
load_name(item) == TableStrings[get_name_address(item)]

\* HashMap::new()
HashMapNew == [n \in {} |-> 0]

\* NamedItemTable::empty: no item, the OnceCell set to an empty map. pushed
\* and removed remember that a push found the map set and that a remove ran.
empty == [list |-> <<>>, map |-> {HashMapNew}, pushed |-> FALSE, removed |-> FALSE]

\* NamedItemTable::push
push(t, name, item) ==
    IF t.map # {}
    THEN LET map == CHOOSE m \in t.map : TRUE
         IN [t EXCEPT !.list = Append(@, item),
                      !.map = {Insert(map, name, Len(t.list))},
                      !.pushed = TRUE]
    ELSE [t EXCEPT !.list = Append(@, item)]

\* Vec::remove of a 0-based index.
VecRemove(list, index) == SubSeq(list, 1, index) \o SubSeq(list, index + 2, Len(list))

remove_keeping_map(t, index) ==
    [t EXCEPT !.list = VecRemove(@, index), !.removed = TRUE]

\* NamedItemTable::remove
remove(t, index) ==
    [t EXCEPT !.list = VecRemove(@, index), !.map = {}, !.removed = TRUE]

\* NamedItemTable::build_lookup_table: the loop from index on.
RECURSIVE build_from(_, _, _)
build_from(list, index, map) ==
    IF index >= Len(list) THEN map
    ELSE build_from(list, index + 1, Insert(map, load_name(list[index + 1]), index))

\* NamedItemTable::build_lookup_table
build_lookup_table(list) == build_from(list, 0, HashMapNew)

\* OnceCell::get_or_try_init in find_by_name: the map, built if unset.
get_or_try_init(t) ==
    IF t.map # {} THEN CHOOSE m \in t.map : TRUE ELSE build_lookup_table(t.list)

\* NamedItemTable::find_by_name: the Option returned.
find_by_name(t, name) ==
    LET map == get_or_try_init(t)
    IN IF name \in DOMAIN map
       THEN IF map[name] < Len(t.list) THEN {t.list[map[name] + 1]} ELSE {}
       ELSE {}

TableEmpty ==
    /\ table' = empty
    /\ answer' = NoAnswer
    /\ UNCHANGED beside_named

TableWithList(list) ==
    /\ table' = with_list(list)
    /\ answer' = NoAnswer
    /\ UNCHANGED beside_named

\* push: the name given is the one the strings section holds for the item.
TablePush(name, item) ==
    /\ Len(table.list) < MaxItems
    /\ load_name(item) = name
    /\ table' = push(table, name, item)
    /\ answer' = NoAnswer
    /\ UNCHANGED beside_named

\* remove of an index in bounds (Vec::remove panics on any other).
TableRemove(index) ==
    /\ index < Len(table.list)
    /\ table' = remove(table, index)
    /\ answer' = NoAnswer
    /\ UNCHANGED beside_named

\* find_by_name: sets the OnceCell if it was unset, and answers.
TableFindByName(name) ==
    /\ table' = [table EXCEPT !.map = {get_or_try_init(table)}]
    /\ answer' = [asked |-> TRUE, name |-> name, item |-> find_by_name(table, name)]
    /\ UNCHANGED beside_named

\* The lists with_list is given: none, one item, two items.
ItemLists == {<<>>} \cup {<<x>> : x \in Items} \cup {<<x, y>> : x, y \in Items}

NextNamed ==
    \/ TableEmpty
    \/ \E list \in ItemLists : TableWithList(list)
    \/ \E name \in ItemNames, item \in Items : TablePush(name, item)
    \/ \E index \in 0..(MaxItems - 1) : TableRemove(index)
    \/ \E name \in ItemNames : TableFindByName(name)

SpecNamed == Init /\ [][NextNamed]_vars

\* The item at the highest index of the list whose name is n, if any.
HighestNamed(list, n) ==
    LET at == {k \in 1..Len(list) : load_name(list[k]) = n}
    IN IF at = {} THEN {}
       ELSE {list[CHOOSE k \in at : \A j \in at : j <= k]}

ListNames(list) == {list[k] : k \in 1..Len(list)}
MapNames(map) == {map[h] : h \in DOMAIN map}

\* C30: the DebugSymbols value pushed to, and the one read() returned, each
\* hold in their symbol list exactly the names their map holds.
C30_ListMatchesMap ==
    /\ ListNames(symbols_list) = MapNames(symbols_map)
    /\ symbols_read.err = "none" =>
          ListNames(symbols_read.symbols_list) = MapNames(symbols_read.symbols_map)

\* ------------------------------------------------- save() called twice
\* Two calls of save() returned Ok: the sink holds the chunks of the first
\* (file0, as the second call found it) and then those of the second.
SavedTwice ==
    /\ pc = "idle" /\ saves = 2 /\ result = "ok"
    /\ Len(file0) = 1 + 2 * Len(sections)
    /\ Len(file) = 2 * Len(file0)

\* The compressor gave both calls the same size for the same payload under
\* the same method.
SameDeflate ==
    \A k \in 1..Len(sections) :
        LET first == file[1 + Len(sections) + k].seg
            second == file[Len(file0) + 1 + Len(sections) + k].seg
        IN first.method = second.method /\ first.data = second.data
               => first.len = second.len

\* C28: no payload and no header is changed between two calls of save(); the
\* second call writes the main header and every section header (size,
\* csize, chksum, flags, pointer; file_size, chksum) as the first call did.
C28_SaveRepeatable ==
    SavedTwice /\ SameDeflate =>
        \A k \in 1..(1 + Len(sections)) : file[Len(file0) + k].hdr = file[k].hdr

====
